---- MODULE Spec2Model ----
(***************************************************************************)
(* Browser-driven UI verification scripts of KikDevKik/MyWorld.            *)
(*                                                                         *)
(* Every script of the repository is a straight-line Python program over   *)
(* the Playwright driver: launch a browser, navigate, wait, look an        *)
(* element up, click, take a screenshot, close.  A script is modelled as   *)
(* the table of its driver calls (one row per call, labelled with its      *)
(* source line and with the except-handler that guards it); the actions    *)
(* below execute one row at a time.  The application under test and the    *)
(* driver are the environment: how many elements a selector matches, and   *)
(* whether the server answers, are inputs drawn at each call.              *)
(***************************************************************************)
EXTENDS Integers, Sequences, FiniteSets, TLC

VARIABLES
    script,   \* the script being run
    prog,     \* its table of rows, loaded when the process starts
    pc,       \* index of the next row of its table; 0 = the process has ended
    browser,  \* "none" | "open" | "closed"
    exit,     \* -1 while running, then the process exit code
    exc,      \* kind of the exception last raised ("none" before any)
    loc,      \* the script's locator variable (forge_btn, director_btn, ...)
    cnt,      \* loop counter of a retry loop
    url,      \* port of the base URL determined from the log; 0 = not yet
    log,      \* dev_output.log: [exists, lines]
    live,     \* ports on which the dev server answers
    trace,    \* the driver calls and prints made so far, in order
    me,       \* number of the process whose registers the above are
    sid,      \* the browser process it launched; 0 = none yet
    peer,     \* registers of a second script process started beside it
    opened,   \* browser processes launched so far on the machine
    disk      \* screenshot files written: [path, by]

vars == <<script, prog, pc, browser, exit, exc, loc, cnt, url, log, live, trace,
          me, sid, peer, opened, disk>>

\* the scheduling of the two processes, and what they share beside the
\* dev server and its log
sched == <<me, peer>>
world == <<sid, opened, disk>>

(***************************************************************************)
(* Bounds of the model.                                                    *)
(***************************************************************************)
MaxMatch == 2    \* a selector matches 0..MaxMatch elements
MaxLogLen == 2   \* dev_output.log has at most MaxLogLen lines

(***************************************************************************)
(* Rows of a script table.                                                 *)
(*   exc : label of the row that handles an exception raised here          *)
(*         ("" = no enclosing try: the exception leaves the script)        *)
(*   els : label jumped to when a test is false                            *)
(*   sel : selector; "@" = the script's locator variable                   *)
(*   group : name of the either-or group of waits the row belongs to       *)
(*   expect : the row is an expect(...) assertion or an assert statement   *)
(*   timeout : the timeout= given at the call, in ms; 0 = none given, the  *)
(*         driver's default applies (recorded for the LiveScripts only)    *)
(***************************************************************************)
Ins == [line |-> 0, op |-> "", sel |-> "", mode |-> "", chain |-> "",
        rank |-> 0, path |-> "", step |-> 0, status |-> "", port |-> 0,
        count |-> 0, group |-> "", expect |-> FALSE, timeout |-> 0,
        exc |-> "", els |-> "", to |-> "", lab |-> ""]

Lab(name, ins) == [ins EXCEPT !.lab = name]
Chain(c, r, ins) == [ins EXCEPT !.chain = c, !.rank = r]
AnyOf(g, ins) == [ins EXCEPT !.group = g]
Within(ms, ins) == [ins EXCEPT !.timeout = ms]

Launch(l) == [Ins EXCEPT !.line = l, !.op = "launch"]
Goto(l, p, h) == [Ins EXCEPT !.line = l, !.op = "goto", !.port = p, !.exc = h]
WaitFor(l, s, h) ==
    [Ins EXCEPT !.line = l, !.op = "wait", !.sel = s, !.mode = "first", !.exc = h]
ExpectVisible(l, s, m, h) ==
    [Ins EXCEPT !.line = l, !.op = "wait", !.sel = s, !.mode = m, !.exc = h,
                !.expect = TRUE]
ExpectHidden(l, s, m, h) ==
    [Ins EXCEPT !.line = l, !.op = "hidden", !.sel = s, !.mode = m, !.exc = h,
                !.expect = TRUE]
WaitForHidden(l, s, h) ==
    [Ins EXCEPT !.line = l, !.op = "hidden", !.sel = s, !.mode = "first", !.exc = h]
Expect(l, h) == [Ins EXCEPT !.line = l, !.op = "expect", !.exc = h, !.expect = TRUE]
Bind(l, s) == [Ins EXCEPT !.line = l, !.op = "bind", !.sel = s]
IsVisible(l, s, e, h) ==
    [Ins EXCEPT !.line = l, !.op = "probe", !.sel = s, !.mode = "strict",
                !.els = e, !.exc = h]
CountPos(l, s, e, h) ==
    [Ins EXCEPT !.line = l, !.op = "probe", !.sel = s, !.mode = "count",
                !.els = e, !.exc = h]
Click(l, s, h) ==
    [Ins EXCEPT !.line = l, !.op = "click", !.sel = s, !.mode = "strict", !.exc = h]
ClickFirst(l, s, h) ==
    [Ins EXCEPT !.line = l, !.op = "click", !.sel = s, !.mode = "first", !.exc = h]
Shot(l, p, h) == [Ins EXCEPT !.line = l, !.op = "shot", !.path = p, !.exc = h]
Record(l, k, st) ==
    [Ins EXCEPT !.line = l, !.op = "record", !.step = k, !.status = st]
Close(l) == [Ins EXCEPT !.line = l, !.op = "close"]
Jump(l, t) == [Ins EXCEPT !.line = l, !.op = "jump", !.to = t]
Ret(l) == [Ins EXCEPT !.line = l, !.op = "ret"]
Raise(l, kind, h) ==
    [Ins EXCEPT !.line = l, !.op = "raise", !.mode = kind, !.exc = h]
Call(l, h) == [Ins EXCEPT !.line = l, !.op = "call", !.exc = h]
\* with open(p, "w") as f: f.write(page.content())
Dump(l, p, h) == [Call(l, h) EXCEPT !.mode = "dump", !.path = p]
\* page.on("console", print ...), page.on("pageerror", print ...)
Listen(l) == [Call(l, "") EXCEPT !.mode = "listen"]
\* print of what is about to be done
Say(l, what) == [Call(l, "") EXCEPT !.mode = "say", !.status = what]
\* box = btn.bounding_box(); if box and box['x'] > x
OnRight(l, s, e, h) == [CountPos(l, s, e, h) EXCEPT !.mode = "box"]
Resolve(l, how) == [Ins EXCEPT !.line = l, !.op = "resolve", !.mode = how]
GotoUrl(l, h) == [Ins EXCEPT !.line = l, !.op = "goto", !.mode = "url", !.exc = h]
Reload(l, h) == [Ins EXCEPT !.line = l, !.op = "goto", !.mode = "reload", !.exc = h]
Loop(l, n, t) == [Ins EXCEPT !.line = l, !.op = "loop", !.count = n, !.to = t]
Check(l, k) == [Ins EXCEPT !.line = l, !.op = "check", !.step = k]

(***************************************************************************)
(* verification/verify_sidebar.py, test_sidebar_visibility.                *)
(***************************************************************************)
TextManual == "text=Manual de Campo"

\* the except-branch without its close and return: the run goes on
sidebar_initial_failed_goes_on ==
    << Lab("initial_failed", Record(41, 2, "failed")),
       Shot(42, "verification/error_initial.png", "") >>

\* except-branch of step 2 (lines 40-47): error screenshot, close, return
sidebar_initial_failed ==
    << Lab("initial_failed", Record(41, 2, "failed")),
       Shot(42, "verification/error_initial.png", ""),
       Close(46),
       Ret(47) >>

\* the except-branch ends the run like that of the initial check
sidebar_forge_failed_returns ==
    << Lab("forge_failed", Record(71, 3, "failed")),
       Shot(72, "verification/error_forge.png", ""),
       Close(73),
       Ret(73) >>

\* except-branch of step 3 (lines 70-72): error screenshot, and on to step 4
sidebar_forge_failed ==
    << Lab("forge_failed", Record(71, 3, "failed")),
       Shot(72, "verification/error_forge.png", "") >>

verify_sidebar ==
    << Launch(5),
       Goto(12, 3000, ""),
       \* 1. WAIT FOR LOAD
       WaitFor(23, "body", "load_failed"),
       Record(24, 1, "ok"),
       Jump(24, "initial"),
       Lab("load_failed", Record(26, 1, "failed")),
       Shot(27, "verification/error_load.png", ""),
       Close(28),
       Ret(29),
       \* 2. CHECK INITIAL STATE (EDITOR)
       Lab("initial", ExpectVisible(37, TextManual, "strict", "initial_failed")),
       Record(38, 2, "ok"),
       Shot(39, "verification/1_editor_mode.png", "initial_failed"),
       Jump(39, "forge") >>
    \o sidebar_initial_failed \o
    << \* 3. SWITCH TO HEAVY TOOL (FORGE)
       Lab("forge", Chain("forge_btn", 1, Bind(54, "label=Forge"))),
       IsVisible(55, "@", "forge_title", ""),
       Jump(55, "forge_click"),
       Lab("forge_title", Chain("forge_btn", 2, Bind(57, "title=Forge"))),
       Lab("forge_click", Click(59, "@", "")),
       ExpectHidden(67, TextManual, "strict", "forge_failed"),
       Record(68, 3, "ok"),
       Shot(69, "verification/2_forge_mode.png", "forge_failed"),
       Jump(69, "restore") >>
    \o sidebar_forge_failed \o
    << \* 4. CLOSE FORGE (RETURN TO EDITOR)
       Lab("restore", Click(82, "@", "")),
       ExpectVisible(87, TextManual, "strict", "restore_failed"),
       Record(88, 4, "ok"),
       Shot(89, "verification/3_restored_mode.png", "restore_failed"),
       Jump(89, "director"),
       Lab("restore_failed", Record(91, 4, "failed")),
       Shot(92, "verification/error_restore.png", ""),
       \* 5. OPEN DIRECTOR (SIDE TOOL)
       Lab("director", Click(97, "label=Director", "")),
       ExpectVisible(103, TextManual, "strict", "director_failed"),
       Record(104, 5, "ok"),
       Shot(105, "verification/4_director_mode.png", "director_failed"),
       Jump(105, "end"),
       Lab("director_failed", Record(107, 5, "failed")),
       Shot(108, "verification/error_director.png", ""),
       Lab("end", Close(110)),
       Ret(110) >>

(***************************************************************************)
(* verification/verify_sidebar_v2.py, test_sidebar_visibility.             *)
(***************************************************************************)
verify_sidebar_v2 ==
    << Launch(5),
       Goto(10, 3000, ""),
       \* 1. WAIT FOR APP
       WaitFor(14, "h2", "load_failed"),
       Record(15, 1, "ok"),
       Jump(15, "initial"),
       Lab("load_failed", Record(17, 1, "failed")),
       Shot(18, "verification/error_load_v2.png", ""),
       Close(19),
       Ret(20),
       \* 2. CHECK INITIAL STATE (EDITOR)
       Lab("initial", ExpectVisible(29, TextManual, "first", "initial_failed")),
       Record(30, 2, "ok"),
       Shot(31, "verification/1_editor_mode_v2.png", "initial_failed"),
       Jump(31, "forge"),
       Lab("initial_failed", Record(33, 2, "failed")),
       Shot(34, "verification/error_initial_v2.png", ""),
       \* 3. SWITCH TO FORGE (HEAVY TOOL)
       Lab("forge", Chain("forge_btn", 1, Bind(45, "button[aria-label='Forge']"))),
       IsVisible(46, "@", "forge_title", ""),
       Jump(46, "forge_check"),
       Lab("forge_title", Chain("forge_btn", 2, Bind(48, "button[title='Forja']"))),
       Lab("forge_check", IsVisible(50, "@", "no_forge", "")),
       Click(51, "@", ""),
       Record(52, 3, "ok"),
       Jump(52, "hidden"),
       Lab("no_forge", Record(54, 3, "failed")),
       Shot(55, "verification/error_no_forge_btn.png", ""),
       Close(56),
       Ret(57),
       Lab("hidden", ExpectHidden(69, TextManual, "first", "forge_failed")),
       Record(70, 3, "ok"),
       Shot(71, "verification/2_forge_mode_v2.png", "forge_failed"),
       Jump(71, "restore"),
       Lab("forge_failed", Record(73, 3, "failed")),
       Shot(74, "verification/error_forge_v2.png", ""),
       \* 4. CLOSE FORGE (RESTORE)
       Lab("restore", Click(79, "@", "")),
       ExpectVisible(83, TextManual, "first", "restore_failed"),
       Record(84, 4, "ok"),
       Shot(85, "verification/3_restored_mode_v2.png", "restore_failed"),
       Jump(85, "director"),
       Lab("restore_failed", Record(87, 4, "failed")),
       Shot(88, "verification/error_restore_v2.png", ""),
       \* 5. OPEN DIRECTOR
       Lab("director", Click(93, "button[aria-label='Director']", "")),
       ExpectVisible(97, TextManual, "first", "director_failed"),
       Record(98, 5, "ok"),
       Shot(99, "verification/4_director_mode_v2.png", "director_failed"),
       Jump(99, "end"),
       Lab("director_failed", Record(101, 5, "failed")),
       Shot(102, "verification/error_director_v2.png", ""),
       Lab("end", Close(104)),
       Ret(104) >>

(***************************************************************************)
(* verification/verify_sentinel_layout.py, verify_layout.  The loop over   *)
(* the dock buttons clicks the first one labelled Forja or Forge.          *)
(***************************************************************************)
DockForge == "aside button[aria-label*=Forja|Forge]"

verify_sentinel_layout ==
    << Launch(6),
       Goto(12, 3002, "nav_failed"),
       Jump(12, "load"),
       Lab("nav_failed", Record(14, 0, "failed")),
       Ret(15),
       \* Wait for app to load
       Lab("load", WaitFor(19, "aside", "load_timeout")),
       Record(20, 0, "ok"),
       Jump(20, "standard"),
       Lab("load_timeout", Record(22, 0, "failed")),
       \* 1. Standard View
       Lab("standard", Shot(25, "verification/1_standard_view.png", "")),
       Record(26, 1, "ok"),
       \* 2. Enter Full Focus Mode
       Call(44, "focus_failed"),
       CountPos(48, DockForge, "focus_shot", "focus_failed"),
       ClickFirst(49, DockForge, "focus_failed"),
       Lab("focus_shot", Shot(59, "verification/2_full_focus_forge.png", "focus_failed")),
       Record(60, 2, "ok"),
       Jump(60, "overlay"),
       Lab("focus_failed", Record(62, 2, "failed")),
       \* 3. Open Director in Full Focus (Overlay)
       Lab("overlay", Call(67, "overlay_failed")),
       Call(69, "overlay_failed"),
       Call(71, "overlay_failed"),
       Shot(74, "verification/3_overlay_director.png", "overlay_failed"),
       Record(75, 3, "ok"),
       Jump(75, "end"),
       Lab("overlay_failed", Record(77, 3, "failed")),
       Lab("end", Close(79)),
       Ret(79) >>

(***************************************************************************)
(* verification/verify_forge_ui.py, run.                                   *)
(***************************************************************************)
Hammer == "button:has(svg.lucide-hammer)"
Materializar == "button:has-text('Materializar') >> first"

verify_forge_ui ==
    << Launch(5),
       Goto(10, 3000, ""),
       \* 2. Click Forge Icon
       WaitFor(17, "button", "forge_error"),
       Chain("forge_btn", 1, CountPos(20, Hammer, "forge_title", "forge_error")),
       Chain("forge_btn", 1, Click(21, Hammer, "forge_error")),
       Jump(21, "card"),
       Lab("forge_title",
           Chain("forge_btn", 2, Click(23, "title=Forja de Almas", "forge_error"))),
       Jump(23, "card"),
       Lab("forge_error", Record(26, 2, "failed")),
       Shot(27, "verification/error_forge_click.png", ""),
       Ret(28),
       \* 3. Click "Materializar" on the Ghost Card
       Lab("card", CountPos(44, Materializar, "no_button", "card_error")),
       ClickFirst(45, Materializar, "card_error"),
       Jump(45, "chat"),
       Lab("no_button", Record(47, 3, "failed")),
       Shot(48, "verification/error_no_materialize_btn.png", "card_error"),
       Ret(49),
       Lab("card_error", Record(52, 3, "failed")),
       Shot(53, "verification/error_card_click.png", ""),
       Ret(54),
       \* 4. Screenshot the Chat Header
       Lab("chat", Shot(60, "verification/forge_chat_opened.png", "")),
       Close(62),
       Ret(62) >>

(***************************************************************************)
(* verification/verify_drift.py, __main__ and test_drift_button_visible.   *)
(***************************************************************************)
verify_drift ==
    << Launch(21),
       Goto(6, 3000, ""),
       ExpectVisible(9, "title=Director de Escena", "strict", ""),
       ExpectVisible(13, "title=Simular Drift (DEV)", "strict", ""),
       Shot(17, "verification/drift_visible.png", ""),
       Close(24),
       Ret(24) >>

(***************************************************************************)
(* verification/verify_director.py, run.                                   *)
(***************************************************************************)
\* navigation issued before the port has been read
director_open_goto_first ==
    << Launch(4),
       GotoUrl(23, "error"),
       Resolve(9, "director") >>

\* lines 4-23: the browser is launched, then the port is read, then goto
director_open ==
    << Launch(4),
       Resolve(9, "director"),
       GotoUrl(23, "error") >>

\* the first locator is waited for, and the fallback taken on its timeout
director_btn_waits ==
    << Chain("director_btn", 1, Bind(30, "label=Director")),
       ExpectVisible(31, "@", "strict", "by_title"),
       Jump(31, "check"),
       Lab("by_title", Chain("director_btn", 2, Bind(32, "title=Director de Escena"))) >>

\* lines 30-32: director_btn, by aria-label, else by title
director_btn ==
    << Chain("director_btn", 1, Bind(30, "label=Director")),
       IsVisible(31, "@", "by_title", "error"),
       Jump(31, "check"),
       Lab("by_title", Chain("director_btn", 2, Bind(32, "title=Director de Escena"))) >>

verify_director ==
    director_open \o director_btn \o
    << Lab("check", IsVisible(34, "@", "landing", "error")),
       Click(35, "@", "error"),
       \* 1. Verify Session Drawer Toggle
       Bind(39, "title=Historial de Sesiones"),
       IsVisible(40, "@", "no_history", "error"),
       Click(41, "@", "error"),
       Shot(43, "verification/director_session_drawer.png", "error"),
       Click(44, "@", "error"),
       Jump(45, "wide"),
       Lab("no_history", Record(47, 1, "failed")),
       \* 2. Verify Wide Mode
       Lab("wide", Bind(50, "title=Modo Estratega (Expandir)")),
       IsVisible(51, "@", "no_wide", "error"),
       Click(52, "@", "error"),
       Shot(54, "verification/director_wide_mode.png", "error"),
       Jump(54, "panel"),
       Lab("no_wide", Record(56, 2, "failed")),
       \* 3. Verify Drift HUD
       Lab("panel", Shot(61, "verification/director_panel_v2.png", "error")),
       Jump(61, "close"),
       Lab("landing", Record(64, 0, "failed")),
       Shot(65, "verification/landing_failed.png", "error"),
       Jump(65, "close"),
       Lab("error", Record(68, 0, "failed")),
       Shot(69, "verification/error.png", ""),
       Lab("close", Close(71)),
       Ret(71) >>

(***************************************************************************)
(* verification/verify_app.py, test_app_loads.                             *)
(***************************************************************************)
verify_app ==
    << Launch(5),
       Goto(9, 4173, "error"),
       WaitFor(12, "body", "error"),
       Shot(15, "verification/app_verification.png", "error"),
       Record(16, 0, "ok"),
       Jump(16, "finally"),
       Lab("error", Record(19, 0, "failed")),
       Lab("finally", Close(21)),
       Ret(21) >>

(***************************************************************************)
(* verification/verify_kinetic_ui.py, verify_kinetic_ui.                   *)
(***************************************************************************)
verify_kinetic_ui ==
    << Launch(6),
       Goto(12, 3000, "error"),
       Shot(14, "verification/verification.png", "error"),
       Record(15, 0, "ok"),
       Jump(15, "end"),
       Lab("error", Record(17, 0, "failed")),
       Lab("end", Close(19)),
       Ret(19) >>

(***************************************************************************)
(* verification/verify_a11y.py, verify_chaos_slider.  The three-second     *)
(* wait_for_timeout between the navigation and the screenshot changes      *)
(* nothing and has no row.                                                 *)
(***************************************************************************)
verify_a11y ==
    << Launch(7),
       Goto(12, 3002, "error"),
       Shot(16, "verification/verification.png", "error"),
       Record(17, 0, "ok"),
       Jump(17, "finally"),
       Lab("error", Record(20, 0, "failed")),
       Lab("finally", Close(22)),
       Ret(22) >>

(***************************************************************************)
(* verification/verify_palette.py, verify_ux_changes.  page.click and      *)
(* page.wait_for_selector take the first element the selector matches.     *)
(***************************************************************************)
DirectorLabel == "button[aria-label=Director]"

\* wait_for_selector(..., timeout=0): no bound, the call does not return
\* while the element is not there
palette_dock_no_timeout ==
    << Lab("dock", Jump(13, "dock")) >>

\* Wait for the ArsenalDock to load
palette_dock ==
    << Lab("dock", WaitFor(13, DirectorLabel, "")) >>

verify_palette ==
    << Launch(6),
       Goto(10, 3000, "") >>
    \o palette_dock \o
    << \* Open Director
       ClickFirst(22, DirectorLabel, ""),
       WaitFor(25, "button[aria-label=Close Director]", ""),
       CountPos(29, "button[aria-label=Toggle Session Manager]", "strategist", ""),
       Lab("strategist",
           CountPos(33, "button[aria-label=Toggle Strategist Mode]", "send", "")),
       Lab("send", CountPos(37, "button[aria-label=Send message]", "panel", "")),
       Lab("panel", Shot(40, "verification/director_panel.png", "")),
       Close(42),
       Ret(42) >>

(***************************************************************************)
(* verification/verify_sidebar_ghost.py, __main__ and verify_sidebar.  An  *)
(* exception raised in the except-branch of verify_sidebar reaches the     *)
(* try of __main__.                                                        *)
(***************************************************************************)
verify_sidebar_ghost ==
    << Resolve(65, "ghost"),
       Launch(68),
       GotoUrl(72, "script_error"),
       Call(24, "script_error"),
       WaitFor(30, "body", "failed"),
       IsVisible(33, "text=Iniciar Sesion con Google", "ghost", "failed"),
       ClickFirst(35, "text=Iniciar Sesion con Google", "failed"),
       WaitFor(36, TextManual, "failed"),
       Jump(36, "sidebar"),
       Lab("ghost", WaitFor(40, TextManual, "failed")),
       \* Now verify Sidebar
       Lab("sidebar", Shot(44, "verification/sidebar_final.png", "failed")),
       Call(47, "failed"),
       Check(49, 1),
       Check(54, 2),
       Jump(58, "finally"),
       Lab("failed", Record(61, 0, "failed")),
       Shot(62, "verification/error_state.png", "script_error"),
       Jump(62, "finally"),
       Lab("script_error", Record(75, 0, "failed")),
       Lab("finally", Close(77)),
       Ret(77) >>

(***************************************************************************)
(* verification/verify_canon_v4.py, verify_canon_radar.  The buttons of    *)
(* the page are taken one after the other, at most MaxMatch of them; one   *)
(* whose bounding box lies right of x = 1800 is clicked.                   *)
(***************************************************************************)
RightSideButton == "button[box.x > 1800]"

\* the search starts without a word about how it looks for the button
canon_v4_search_unannounced ==
    << Lab("search", Call(34, "")) >>

\* print("Searching for Guardian button (by guessing position)...")
canon_v4_search ==
    << Lab("search", Say(27, "by guessing position")),
       Call(34, "") >>

verify_canon_v4 ==
    << Launch(6),
       Listen(10),
       Goto(13, 3001, ""),
       WaitFor(16, "main", "no_main"),
       Jump(17, "search"),
       Lab("no_main", Record(19, 0, "failed")),
       IsVisible(21, "text=CARGANDO SISTEMAS NEURONALES", "stuck", ""),
       Lab("stuck", Shot(23, "verification/stuck_loading.png", "")),
       Close(24),
       Ret(25) >>
    \o canon_v4_search \o
    << \* one button of the page is measured; the locator is the click's
       Lab("button", OnRight(39, RightSideButton, "next", "")),
       Chain("guardian", 1, ClickFirst(42, RightSideButton, "")),
       IsVisible(45, "text=Radar de Canon", "next", ""),
       Record(46, 0, "ok"),
       Jump(48, "found"),
       Lab("next", Loop(37, MaxMatch, "button")),
       Record(63, 0, "failed"),
       Shot(64, "verification/canon_radar_failed.png", ""),
       Jump(64, "close"),
       \* Verify Full Width
       Lab("found", Call(57, "")),
       Shot(61, "verification/canon_radar_success.png", ""),
       Lab("close", Close(66)),
       Ret(66) >>

(***************************************************************************)
(* verification/verify_ban_list.py, __main__ and test_ban_list.            *)
(***************************************************************************)
\* the handler takes the screenshot and prints nothing
ban_list_failed_silent ==
    << Lab("failed", Shot(53, "verification/failure.png", "finally_raise")) >>

\* except Exception as e: print(f"Test failed: {e}") and the screenshot
ban_list_failed ==
    << Lab("failed", Record(52, 0, "failed")),
       Shot(53, "verification/failure.png", "finally_raise") >>

verify_ban_list ==
    << Launch(46),
       Goto(6, 3000, "failed"),
       Click(10, "label=World Engine", "failed"),
       ExpectVisible(15, "text=DEBUG: OPEN TRIBUNAL", "strict", "failed"),
       Click(16, "text=DEBUG: OPEN TRIBUNAL", "failed"),
       ExpectVisible(20, "text=NEXUS TRIBUNAL", "strict", "failed"),
       ClickFirst(25, "div.flex.border-b.border-slate-800 > button >> nth=3", "failed"),
       ExpectVisible(30, "placeholder=Add term to ban list...", "strict", "failed"),
       Call(34, "failed"),
       ExpectVisible(37, "role=button[name=BAN]", "strict", "failed"),
       Shot(41, "verification/ban_list_ui.png", "failed"),
       Record(50, 0, "ok"),
       Jump(50, "finally") >>
    \o ban_list_failed \o
    << Lab("finally", Close(55)),
       Ret(55),
       Lab("finally_raise", Close(55)),
       Raise(53, "", "") >>

(***************************************************************************)
(* verification/verify_theme.py, verify_titanium_theme.                    *)
(***************************************************************************)
\* the loop without its break: a navigation that succeeded is repeated
theme_retry_no_break ==
    << Lab("attempt", Within(5000, Goto(12, 5173, "not_ready"))),
       Lab("not_ready", Loop(10, 10, "attempt")) >>

\* Retry logic for server start
theme_retry ==
    << Lab("attempt", Within(5000, Goto(12, 5173, "not_ready"))),
       Jump(13, "hydrate"),
       Lab("not_ready", Loop(10, 10, "attempt")) >>

verify_theme ==
    << Launch(6) >>
    \o theme_retry \o
    << \* Get computed styles
       Lab("hydrate", Call(23, "")),
       Call(24, ""),
       \* Assertions
       Check(33, 1),
       Check(38, 2),
       Shot(43, "verification/titanium_theme.png", ""),
       Close(44),
       Ret(44) >>

(***************************************************************************)
(* .Jules/verification/verify_god_mode.py, verify_god_mode_button.         *)
(***************************************************************************)
BrainButton == "button:has(svg.lucide-brain-circuit)"

verify_god_mode ==
    << Launch(6),
       Goto(13, 5173, ""),
       WaitFor(39, BrainButton, "failed"),
       Click(45, BrainButton, "failed"),
       WaitFor(54, "text=Cargar Memoria (God Mode)", "failed"),
       Record(55, 0, "ok"),
       Shot(59, ".Jules/verification/god_mode_menu.png", "failed"),
       Jump(59, "finally"),
       Lab("failed", Record(62, 0, "failed")),
       Shot(63, ".Jules/verification/god_mode_failure.png", "finally_raise"),
       Lab("finally_raise", Close(66)),
       Raise(64, "", ""),
       Lab("finally", Close(66)),
       Ret(66) >>

(***************************************************************************)
(* verify_imprenta.py, __main__ and verify_export_panel.                   *)
(***************************************************************************)
PressButton == "button[aria-label=Press]"

verify_imprenta ==
    << Launch(68),
       Resolve(19, "imprenta"),
       GotoUrl(21, "error"),
       \* 2. LOGIN (Ghost Mode Bypass)
       WaitFor(26, "text=Acceso Restringido", "main"),
       Click(28, "role=button[name=Iniciar Sesion con Google]", "main"),
       \* 3. Wait for Main App
       Lab("main", ExpectVisible(37, PressButton, "strict", "error")),
       Click(41, PressButton, "error"),
       ExpectVisible(45, "text=LA IMPRENTA", "strict", "error"),
       ExpectVisible(46, "text=v3.3 TITAN", "strict", "error"),
       ExpectVisible(50, "text=Composicion del Manuscrito", "strict", "error"),
       ExpectVisible(53, "text=Prensa y Ajustes", "strict", "error"),
       ExpectVisible(56, "placeholder=Ej. Cronicas de Titan", "strict", "error"),
       ExpectVisible(59, "text=Auto-Detectar Capitulos", "strict", "error"),
       ExpectVisible(60, "text=Usa headers (#) como saltos de pagina", "strict", "error"),
       Shot(63, "verification_imprenta.png", "error"),
       Record(64, 0, "ok"),
       Jump(64, "finally"),
       Lab("error", Record(73, 0, "failed")),
       Shot(74, "verification_error.png", "finally_raise"),
       Lab("finally", Close(76)),
       Ret(76),
       Lab("finally_raise", Close(76)),
       Raise(74, "", "") >>

(***************************************************************************)
(* verification/verify_changes.py, verify_changes.                         *)
(***************************************************************************)
\* the icons clicked through the strict locator, without .first
changes_user_icon_strict ==
    << Lab("user_icon_count",
           Chain("settings", 1, CountPos(150, "svg.lucide-user", "settings_icon", "error"))),
       Chain("settings", 1, Click(152, "svg.lucide-user", "error")),
       Jump(153, "modal"),
       Lab("settings_icon",
           Chain("settings", 2, CountPos(159, "svg.lucide-settings", "modal", "error"))),
       Chain("settings", 2, Click(161, "svg.lucide-settings", "error")) >>

\* lines 149-162: the user icon, else the settings icon; .first of each
changes_user_icon ==
    << Lab("user_icon_count",
           Chain("settings", 1, CountPos(150, "svg.lucide-user", "settings_icon", "error"))),
       Chain("settings", 1, ClickFirst(152, "svg.lucide-user", "error")),
       Jump(153, "modal"),
       Lab("settings_icon",
           Chain("settings", 2, CountPos(159, "svg.lucide-settings", "modal", "error"))),
       Chain("settings", 2, ClickFirst(161, "svg.lucide-settings", "error")) >>

\* the two screenshots of the profile tab are written to each other's file
changes_profile_tab_swapped ==
    << Click(181, "text=Perfil", "error"),
       Shot(185, "verification/04_toast_check.png", "error"),
       ExpectVisible(189, "role=button[name=Detectar Automaticamente]", "strict", "error"),
       Click(193, "role=button[name=Detectar Automaticamente]", "error"),
       Shot(197, "verification/03_settings_profile.png", "error") >>

\* 2. VERIFY PROFILE TAB (Auto-Tone Button)
changes_profile_tab ==
    << Click(181, "text=Perfil", "error"),
       Shot(185, "verification/03_settings_profile.png", "error"),
       ExpectVisible(189, "role=button[name=Detectar Automaticamente]", "strict", "error"),
       Click(193, "role=button[name=Detectar Automaticamente]", "error"),
       Shot(197, "verification/04_toast_check.png", "error") >>

verify_changes ==
    << Launch(6),
       Goto(12, 3000, "error"),
       Shot(30, "verification/01_initial_load.png", "error"),
       CountPos(38, "text=Identidad Activa", "settings_btn", "error"),
       Lab("settings_btn",
           CountPos(56, "role=button >> text=Configuracion", "user_icon", "error")),
       Lab("user_icon", Jump(149, "user_icon_count")) >>
    \o changes_user_icon \o
    << \* Now check if Modal is open.
       Lab("modal", IsVisible(165, "text=Configuracion General", "not_open", "error")),
       Record(166, 0, "ok"),
       \* 1. VERIFY GENERAL TAB
       Shot(170, "verification/02_settings_general.png", "error"),
       ExpectVisible(173, "text=Nombre del Proyecto (Universo)", "strict", "error"),
       Call(177, "error") >>
    \o changes_profile_tab \o
    << \* 3. SAVE AND VERIFY HUD
       Click(203, "role=button[name=Guardar Cambios]", "error"),
       Shot(207, "verification/05_hud_update.png", "error"),
       ExpectVisible(210, "text=Titanium Chronicles", "strict", "error"),
       Jump(210, "finally"),
       Lab("not_open", Record(213, 0, "failed")),
       Jump(213, "finally"),
       Lab("error", Record(216, 0, "failed")),
       Shot(217, "verification/error_state.png", "finally_raise"),
       Lab("finally_raise", Close(220)),
       Raise(218, "", ""),
       Lab("finally", Close(220)),
       Ret(220) >>

(***************************************************************************)
(* verification/verify_forge_final.py, verify_forge.                       *)
(***************************************************************************)
verify_forge_final ==
    << Launch(7),
       Goto(13, 3002, "failed"),
       Call(14, "failed"),
       Shot(21, "verification/initial_load.png", "failed"),
       Chain("forge", 1, Click(25, "label=Forja de Almas", "hammer")),
       Jump(25, "hub"),
       Lab("hammer", Chain("forge", 2, ClickFirst(28, "svg.lucide-hammer", "failed"))),
       Lab("hub", WaitFor(31, "text=El Hub", "failed")),
       WaitFor(34, "text=Mock Canon Root", "failed"),
       Shot(38, "verification/forge_hub_success.png", "failed"),
       Record(39, 0, "ok"),
       Jump(39, "finally"),
       Lab("failed", Record(42, 0, "failed")),
       Shot(43, "verification/forge_failure.png", "finally_raise"),
       Lab("finally_raise", Close(46)),
       Raise(44, "", ""),
       Lab("finally", Close(46)),
       Ret(46) >>

(***************************************************************************)
(* verification/verify_settings.py, verify_settings_modal.                 *)
(***************************************************************************)
UserButton == "button svg.lucide-user >> .."
SettingsButton == "button svg.lucide-settings >> .."

verify_settings ==
    << Launch(5),
       Goto(10, 3000, "load_failed"),
       Jump(11, "idle"),
       Lab("load_failed", Record(13, 0, "failed")),
       Close(14),
       Ret(15),
       Lab("idle", Call(17, "")),
       Shot(20, "verification/main_page.png", ""),
       Chain("settings", 1, CountPos(43, UserButton, "settings_btn", "interaction_failed")),
       Chain("settings", 1, ClickFirst(44, UserButton, "interaction_failed")),
       Jump(45, "modal"),
       Lab("settings_btn",
           Chain("settings", 2, CountPos(49, SettingsButton, "modal", "interaction_failed"))),
       Chain("settings", 2, ClickFirst(50, SettingsButton, "interaction_failed")),
       \* Wait for modal text
       Lab("modal", WaitFor(55, "text=Configuracion", "no_modal")),
       ClickFirst(59, "text=Memoria (Debug)", "no_modal"),
       Shot(63, "verification/settings_memory_tab.png", "no_modal"),
       Record(64, 0, "ok"),
       Jump(64, "end"),
       Lab("no_modal", Record(66, 0, "failed")),
       Jump(66, "end"),
       Lab("interaction_failed", Record(69, 0, "failed")),
       Lab("end", Close(71)),
       Ret(71) >>

(***************************************************************************)
(* verify_world_engine.py, __main__ and verify_world_engine_load.          *)
(***************************************************************************)
Connecting == "text=CONNECTING TO CANON VAULT"

\* the title is clicked as well after the label has been clicked
world_engine_button_both ==
    << Chain("world_engine", 1, Click(31, "label=World Engine", "by_title")),
       Lab("by_title",
           Chain("world_engine", 2, Click(35, "title=Perforador de Mundos", "fallback_failed"))),
       Jump(35, "panel"),
       Lab("fallback_failed", Shot(38, "/home/jules/verification/debug_dock.png", "failed")),
       Raise(39, "Explicit", "failed") >>

\* after both clicks have failed the click by label is tried once more
world_engine_button_retries ==
    << Chain("world_engine", 1, Click(31, "label=World Engine", "by_title")),
       Jump(31, "panel"),
       Lab("by_title",
           Chain("world_engine", 2, Click(35, "title=Perforador de Mundos", "fallback_failed"))),
       Jump(35, "panel"),
       Lab("fallback_failed", Shot(38, "/home/jules/verification/debug_dock.png", "failed")),
       Chain("world_engine", 1, Click(39, "label=World Engine", "failed")) >>

\* lines 29-39: 2. Open World Engine Panel, by aria-label, else by title
world_engine_button ==
    << Chain("world_engine", 1, Click(31, "label=World Engine", "by_title")),
       Jump(31, "panel"),
       Lab("by_title",
           Chain("world_engine", 2, Click(35, "title=Perforador de Mundos", "fallback_failed"))),
       Jump(35, "panel"),
       Lab("fallback_failed", Shot(38, "/home/jules/verification/debug_dock.png", "failed")),
       Raise(39, "Explicit", "failed") >>

verify_world_engine ==
    << Launch(69),
       Goto(6, 3000, "failed"),
       Shot(14, "/home/jules/verification/load_state.png", "failed") >>
    \o world_engine_button \o
    << \* 3. Wait for World Engine Panel to load
       Lab("panel", WaitFor(45, Connecting, "failed")),
       WaitForHidden(49, Connecting, "failed"),
       ExpectVisible(53, "text=RIGOR", "strict", "failed"),
       ExpectVisible(60, "canvas", "strict", "failed"),
       Shot(65, "/home/jules/verification/world_engine_verified.png", "failed"),
       Record(73, 0, "ok"),
       Jump(73, "finally"),
       Lab("failed", Record(75, 0, "failed")),
       Shot(76, "/home/jules/verification/verification_error.png", "finally_raise"),
       Lab("finally", Close(78)),
       Ret(78),
       Lab("finally_raise", Close(78)),
       Raise(76, "", "") >>

(***************************************************************************)
(* verification/verify_canon_v2.py, verify_canon_radar.  The buttons of    *)
(* the dock are listed once (line 38, else line 40) and clicked one after  *)
(* the other, at most MaxMatch of them, until 'Radar de Canon' shows;      *)
(* cnt is the index of the button the loop is at.                          *)
(***************************************************************************)
DockButton == "div.fixed.right-0 button"
NextDockButton == "buttons[cnt]"

verify_canon_v2 ==
    << Launch(6),
       Goto(13, 3001, ""),
       Within(15000, WaitFor(16, "main", "no_main")),
       Jump(17, "loaded"),
       Lab("no_main", Record(18, 0, "failed")),
       Shot(19, "verification/error_state.png", ""),
       Close(20),
       Ret(21),
       \* Taking a screenshot of the main view
       Lab("loaded", Shot(31, "verification/app_loaded.png", "")),
       CountPos(38, DockButton, "aside", ""),
       Jump(39, "click"),
       \* if not buttons:
       Lab("aside", CountPos(40, "aside button", "not_found", "")),
       \* for btn in buttons: just click and check for 'Radar de Canon'
       Lab("click", ClickFirst(48, NextDockButton, "")),
       IsVisible(50, "text=Radar de Canon", "next", ""),
       Record(51, 0, "ok"),
       Jump(53, "found"),
       Lab("next", Loop(45, MaxMatch, "more")),
       Jump(45, "not_found"),
       Lab("more", CountPos(45, NextDockButton, "not_found", "")),
       Jump(45, "click"),
       \* if found:
       Lab("found", Shot(63, "verification/canon_radar_active.png", "")),
       Jump(64, "close"),
       Lab("not_found", Record(66, 0, "failed")),
       Shot(67, "verification/canon_radar_failed.png", ""),
       Lab("close", Close(69)),
       Ret(69) >>

(***************************************************************************)
(* verification/verify_lock_screen.py, verify_lock_screen.                 *)
(***************************************************************************)
verify_lock_screen ==
    << Launch(6),
       \* Listen to console logs
       Listen(10),
       Listen(11),
       Goto(15, 3000, "error"),
       \* Take screenshot of whatever is shown
       Shot(20, "verification/lock_screen_final.png", "error"),
       IsVisible(24, "text=Bloqueo de Perimetro", "finally", "error"),
       Jump(25, "finally"),
       Lab("error", Record(28, 0, "failed")),
       Lab("finally", Close(30)),
       Ret(30) >>

(***************************************************************************)
(* verification/verify_canon_v3.py, verify_canon_radar.  The buttons of    *)
(* the page are taken one after the other, at most MaxMatch of them; one   *)
(* whose aria-label names the Guardian is clicked.                         *)
(***************************************************************************)
LabelledButton == "button[aria-label*=Guardian|Canon|Radar]"

verify_canon_v3 ==
    << Launch(6),
       \* Capture console logs
       Listen(11),
       Listen(12),
       Goto(15, 3001, ""),
       \* Check for loading screen
       IsVisible(19, "text=CARGANDO SISTEMAS NEURONALES", "login", ""),
       Shot(21, "verification/stuck_loading.png", ""),
       \* Check for Login Screen
       Lab("login", IsVisible(24, "text=Iniciar Sesion", "main", "")),
       Shot(26, "verification/login_screen.png", ""),
       Lab("main", Within(5000, WaitFor(29, "main", "no_main"))),
       Jump(30, "button"),
       Lab("no_main", Record(32, 0, "failed")),
       Shot(33, "verification/no_main.png", ""),
       Close(34),
       Ret(35),
       \* Click if it looks like Guardian
       Lab("button", CountPos(45, LabelledButton, "next", "")),
       ClickFirst(47, LabelledButton, ""),
       IsVisible(50, "text=Radar de Canon", "next", ""),
       Record(51, 0, "ok"),
       Shot(52, "verification/canon_radar_success.png", ""),
       Close(53),
       Ret(54),
       Lab("next", Loop(40, MaxMatch, "button")),
       Call(59, ""),
       Close(65),
       Ret(65) >>

(***************************************************************************)
(* verification/verify_nexus.py, verify_nexus.                             *)
(***************************************************************************)
WorldEngineLabel == "button[aria-label=World Engine]"
PerforadorLabel == "button[aria-label=Perforador de Mundos]"

verify_nexus ==
    << Launch(5),
       Goto(9, 3000, ""),
       \* 1. Wait for Arsenal Dock
       Within(5000, WaitFor(21, WorldEngineLabel, "error")),
       \* if not button: the handle returned by the wait is never falsy
       Jump(22, "click"),
       Within(5000, WaitFor(23, PerforadorLabel, "error")),
       Lab("click", ClickFirst(26, WorldEngineLabel, "error")),
       \* 2. Wait for Nexus Interface
       Within(5000, WaitFor(31, "text=NEXUS", "error")),
       \* 3. Take Screenshot
       Shot(36, "verification/nexus_v2_active.png", "error"),
       Jump(37, "close"),
       Lab("error", Record(40, 0, "failed")),
       Shot(41, "verification/error_state.png", ""),
       Lab("close", Close(44)),
       Ret(44) >>

(***************************************************************************)
(* verification/verify_localization_full.py, verify_localization.          *)
(***************************************************************************)
\* the page is loaded anew from the other dev server instead of reloaded
localization_load_other_port ==
    << Goto(15, 3001, "error"),
       Call(21, "error"),
       Goto(22, 3000, "error") >>

\* 1. Inject localStorage to set language to English initially
localization_load ==
    << Goto(15, 3001, "error"),
       Call(21, "error"),
       Reload(22, "error") >>

verify_localization_full ==
    << Launch(8) >>
    \o localization_load \o
    <<
       \* 2. Open Settings and Change to Japanese (JP)
       Chain("settings_btn", 1, Bind(27, "button[aria-label=Preferences]")),
       IsVisible(28, "@", "by_text", "error"),
       Jump(28, "open"),
       Lab("by_text", Chain("settings_btn", 2, Bind(32, "text=Preferences"))),
       Lab("open", Click(34, "@", "error")),
       Call(40, "error"),
       Click(44, "text=Save Changes", "error"),
       \* 3. Verify Sidebar Localization (JP)
       ExpectVisible(50, "text=(JP) settings", "strict", "error"),
       ExpectVisible(51, "text=(JP) project", "strict", "error"),
       Shot(67, "verification/localization_sidebar_jp.png", "error"),
       Record(68, 3, "ok"),
       \* 5. Open Settings Again to verify Settings Strings in JP
       Click(72, "text=(JP) settings", "error"),
       ExpectVisible(76, "text=(JP) general settings", "strict", "error"),
       ExpectVisible(79, "text=(JP) project name", "strict", "error"),
       Shot(82, "verification/localization_settings_jp.png", "error"),
       Record(83, 5, "ok"),
       Jump(83, "finally"),
       Lab("error", Record(86, 0, "failed")),
       Shot(87, "verification/error_state.png", "finally_raise"),
       Lab("finally_raise", Close(90)),
       Raise(88, "", ""),
       Lab("finally", Close(90)),
       Ret(90) >>

(***************************************************************************)
(* verification/verify_canon.py, verify_canon_radar.  The for/else over    *)
(* the dock buttons clicks the first one labelled Guardian, Canon or       *)
(* Radar, else the last button of the dock, if the dock has any.           *)
(***************************************************************************)
GuardianButton == "aside button[aria-label*=Guardian|Canon|Radar]"

\* the for loop without its break: the else branch runs after the click
canon_guardian_no_break ==
    << Lab("dock", Chain("guardian", 1, CountPos(51, GuardianButton, "last_button", ""))),
       Chain("guardian", 1, ClickFirst(53, GuardianButton, "")),
       Lab("last_button", Chain("guardian", 2, CountPos(57, "aside button >> last", "radar", ""))),
       Chain("guardian", 2, ClickFirst(58, "aside button >> last", "")) >>

\* lines 47-58: the labelled button, else the last button of the dock
canon_guardian ==
    << Lab("dock", Chain("guardian", 1, CountPos(51, GuardianButton, "last_button", ""))),
       Chain("guardian", 1, ClickFirst(53, GuardianButton, "")),
       Jump(54, "radar"),
       Lab("last_button", Chain("guardian", 2, CountPos(57, "aside button >> last", "radar", ""))),
       Chain("guardian", 2, ClickFirst(58, "aside button >> last", "")) >>

\* the except-branch without its close and return: the dock is searched
\* all the same
canon_no_main_goes_on ==
    << Lab("no_main", Record(36, 0, "failed")),
       Shot(37, "verification/error_state.png", "") >>

\* lines 35-39: main content not found: error screenshot, close, return
canon_no_main ==
    << Lab("no_main", Record(36, 0, "failed")),
       Shot(37, "verification/error_state.png", ""),
       Close(38),
       Ret(39) >>

verify_canon ==
    << Launch(6),
       Goto(12, 3000, ""),
       \* Checking if login screen is present
       WaitFor(25, "text=Iniciar Sesion", "no_login"),
       Record(26, 0, "failed"),
       Shot(27, "verification/login_screen.png", "no_login"),
       Close(28),
       Ret(29),
       Lab("no_login", WaitFor(34, "main", "no_main")),
       Jump(34, "dock") >>
    \o canon_no_main \o canon_guardian \o
    << \* Verify CanonRadar is visible inside main
       Lab("radar", IsVisible(64, "text=Radar de Canon", "not_visible", "")),
       Record(65, 1, "ok"),
       Shot(68, "verification/canon_radar_active.png", ""),
       Jump(68, "close"),
       Lab("not_visible", Record(70, 1, "failed")),
       Shot(71, "verification/canon_radar_failed.png", ""),
       Lab("close", Close(73)),
       Ret(73) >>

(***************************************************************************)
(* verification/verify_ux.py, __main__ and                                 *)
(* test_session_manager_accessibility.  __main__ has try/finally and no    *)
(* except: an exception closes the browser and leaves the script.          *)
(***************************************************************************)
SessionItem == "div[role=button][tabindex=0]"

\* the empty-state text is waited for after the items instead of before
ux_loading_items_first ==
    << AnyOf("loading", WaitFor(40, SessionItem, "items")),
       Record(41, 5, "ok"),
       Jump(41, "content"),
       Lab("items",
           AnyOf("loading",
                 WaitFor(35, "text=No hay registros de memoria disponibles.", "neither"))),
       Record(36, 5, "ok"),
       Jump(36, "content"),
       Lab("neither", Record(43, 5, "failed")) >>

\* lines 32-43: 5. Wait for Loading to Finish: the empty-state text, else
\* a session item
ux_loading ==
    << AnyOf("loading",
             WaitFor(35, "text=No hay registros de memoria disponibles.", "items")),
       Record(36, 5, "ok"),
       Jump(36, "content"),
       Lab("items", AnyOf("loading", WaitFor(40, SessionItem, "neither"))),
       Record(41, 5, "ok"),
       Jump(41, "content"),
       Lab("neither", Record(43, 5, "failed")) >>

verify_ux ==
    << Launch(72),
       \* Monitor console logs
       Listen(5),
       Listen(6),
       Goto(9, 3000, "finally_raise"),
       \* Wait for app to load (checking for ArsenalDock)
       WaitFor(13, "button[aria-label=Director]", "no_director"),
       Jump(13, "open"),
       Lab("no_director", Record(15, 1, "failed")),
       Shot(16, "verification/failed_landing.png", "finally_raise"),
       Jump(17, "finally"),
       \* 2. Act: Open Director
       Lab("open", Click(20, "label=Director", "finally_raise")),
       WaitFor(23, "h2:has-text(Director)", "finally_raise"),
       \* 3. Open Session Manager
       Click(27, "button[title=Archivos de Sesion]", "finally_raise"),
       \* 4. Assert Modal Open
       WaitFor(30, "div:has-text(Archivos de Memoria)", "finally_raise") >>
    \o ux_loading \o
    << \* 5. Check content
       Lab("content", Shot(46, "verification/session-manager.png", "finally_raise")),
       CountPos(51, SessionItem, "empty", "check_error"),
       Call(56, "check_error"),
       Shot(57, "verification/session-focus.png", "check_error"),
       Call(59, "check_error"),
       Check(60, 6),
       Jump(63, "finally"),
       Lab("empty", Record(65, 6, "ok")),
       Jump(65, "finally"),
       Lab("check_error", Record(68, 6, "failed")),
       Lab("finally", Close(77)),
       Ret(77),
       Lab("finally_raise", Close(77)),
       Raise(77, "", "") >>

(***************************************************************************)
(* verification/verify_selector.py, test_internal_file_selector.           *)
(***************************************************************************)
\* lines 39-53: the source selector screen, else the vault connection
\* screen
selector_state ==
    << AnyOf("state",
             ExpectVisible(40, "text=Seleccionar la Fuente de Verdad", "strict", "vault")),
       Record(41, 1, "ok"),
       Jump(41, "button"),
       Lab("vault",
           AnyOf("state",
                 ExpectVisible(46, "text=Vault Connection Required", "strict", "unknown"))),
       Record(47, 1, "ok"),
       Jump(47, "button"),
       Lab("unknown", Record(53, 1, "failed")) >>

verify_selector ==
    << Launch(5),
       Goto(23, 3000, ""),
       Call(31, ""),
       Shot(34, "verification/step1_initial.png", "") >>
    \o selector_state \o
    << \* 2. Interact with the new button
       Lab("button", Click(59, "role=button[name=Seleccionar de Memoria...]", "error")),
       \* 3. Verify Modal Opens
       ExpectVisible(64, "text=TDB_INDEX :: READY", "strict", "error"),
       Record(65, 2, "ok"),
       Shot(68, "verification/verification.png", "error"),
       Jump(69, "close"),
       Lab("error", Record(72, 2, "failed")),
       Shot(73, "verification/error.png", ""),
       Lab("close", Close(75)),
       Ret(75) >>

(***************************************************************************)
(* verification/verify_project_settings_modal.py, __main__ and             *)
(* test_project_settings_modal.                                            *)
(***************************************************************************)
\* the attributes are only printed, the assert statements left out
modal_attributes_printed ==
    << Call(22, "error"),
       Call(23, "error"),
       Call(24, "error"),
       Check(26, 0),
       Check(27, 0),
       Check(28, 0) >>

\* lines 21-28: Check attributes: three prints, three assert statements
modal_attributes ==
    << Call(22, "error"),
       Call(23, "error"),
       Call(24, "error"),
       Expect(26, "error"),
       Expect(27, "error"),
       Expect(28, "error") >>

\* the handler prints the error and takes no screenshot
modal_except_no_capture ==
    << Lab("error", Record(45, 0, "failed")) >>

\* except Exception as e: print(f'Error: {e}') and the screenshot
modal_except ==
    << Lab("error", Record(45, 0, "failed")),
       Shot(46, "verification/error.png", "finally_raise") >>

verify_project_settings_modal ==
    << Launch(40),
       Call(5, "error"),
       Goto(8, 3000, "error"),
       \* 2. Wait for sidebar
       Bind(11, "#sidebar-project-settings"),
       ExpectVisible(12, "@", "strict", "error"),
       \* 3. Act: Click the Project Settings button.
       Click(15, "@", "error"),
       \* 4. Assert: Modal appears.
       Bind(18, "#project-settings-modal"),
       ExpectVisible(19, "@", "strict", "error") >>
    \o modal_attributes \o
    << \* Check close button
       Bind(31, "label=Cerrar configuracion"),
       ExpectVisible(32, "@", "strict", "error"),
       \* 5. Screenshot
       Shot(35, "verification/project_settings_modal.png", "error"),
       Record(36, 0, "ok"),
       Jump(43, "finally") >>
    \o modal_except \o
    << Lab("finally", Close(48)),
       Ret(48),
       Lab("finally_raise", Close(48)),
       Raise(48, "", "") >>

(***************************************************************************)
(* verification/verify_accessibility.py, __main__ and                      *)
(* test_commandbar_accessibility.                                          *)
(***************************************************************************)
RigorOption == "role=radio[name=Modo RIGOR]"
FusionOption == "role=radio[name=Modo FUSION]"
EntropiaOption == "role=radio[name=Modo ENTROPIA]"

verify_accessibility ==
    << Launch(62),
       Goto(7, 3000, "error"),
       Call(10, "error"),
       \* Act: Navigate to World Engine
       Bind(14, "label=World Engine"),
       ExpectVisible(15, "@", "strict", "error"),
       Click(16, "@", "error"),
       \* Wait for CommandBar input
       Bind(21, "label=Comando para el motor"),
       ExpectVisible(22, "@", "strict", "error"),
       \* Check Radio Group
       Bind(26, "role=radiogroup[name=Modo de Realidad]"),
       ExpectVisible(27, "@", "strict", "error"),
       \* Check options
       ExpectVisible(34, RigorOption, "strict", "error"),
       ExpectVisible(35, FusionOption, "strict", "error"),
       ExpectVisible(36, EntropiaOption, "strict", "error"),
       \* Verify default state
       Expect(39, "error"),
       Expect(40, "error"),
       \* Click RIGOR
       Click(44, RigorOption, "error"),
       Expect(45, "error"),
       Expect(46, "error"),
       \* Keyboard Interaction
       Call(51, "error"),
       Call(52, "error"),
       Expect(53, "error"),
       Expect(54, "error"),
       \* 4. Screenshot
       Shot(57, "verification/commandbar_verification.png", "error"),
       Record(58, 0, "ok"),
       Jump(65, "finally"),
       Lab("error", Record(67, 0, "failed")),
       Shot(68, "verification/error.png", "finally_raise"),
       \* Dump content for debugging
       Dump(71, "verification/page_dump.html", "finally_raise"),
       Lab("finally", Close(73)),
       Ret(73),
       Lab("finally_raise", Close(73)),
       Raise(73, "", "") >>

(***************************************************************************)
(* verification/verify_ui.py, verify_project_settings_modal.               *)
(***************************************************************************)
Chronology == "text=Ruta de Cronologia"

verify_ui ==
    << Launch(5),
       \* 1. Open App
       Goto(10, 3000, ""),
       \* 2. Wait for Sidebar
       WaitFor(15, TextManual, "timeout"),
       Jump(15, "open"),
       Lab("timeout", Record(17, 2, "failed")),
       Call(18, ""),
       Shot(20, "/home/jules/verification/error_state.png", ""),
       Raise(21, "", ""),
       \* 3. Open Project Settings
       Lab("open", Click(29, "role=button[name=Proyecto]", "")),
       \* 4. Wait for Modal
       WaitFor(33, "text=Configuracion del Proyecto", ""),
       \* 5. Check for Chronology Section (Should NOT exist)
       CountPos(39, Chronology, "gone", ""),
       IsVisible(39, Chronology, "gone", ""),
       Record(40, 5, "failed"),
       Jump(40, "canon"),
       Lab("gone", Record(42, 5, "ok")),
       \* 6. Check for Canon Paths (Should exist)
       Lab("canon", IsVisible(46, "text=Rutas Canon", "missing", "")),
       Record(47, 6, "ok"),
       Jump(47, "shot"),
       Lab("missing", Record(49, 6, "failed")),
       \* 7. Screenshot
       Lab("shot", Shot(52, "/home/jules/verification/settings_modal.png", "")),
       Close(55),
       Ret(55) >>

(***************************************************************************)
(* tests/verify_ghost_forge.py, __main__ and test_ghost_forge.             *)
(***************************************************************************)
\* the listeners are attached once the page has been asked for
ghost_forge_open_then_listen ==
    << Goto(9, 3000, "error"),
       Listen(5),
       Listen(6) >>

\* page.on("console", ...), page.on("pageerror", ...); 1. Navigate to App
ghost_forge_open ==
    << Listen(5),
       Listen(6),
       Goto(9, 3000, "error") >>

verify_ghost_forge ==
    << Launch(34) >>
    \o ghost_forge_open \o
    << \* 2. Wait for Editor Content
       ExpectVisible(12, "text=# Mock Content", "strict", "error"),
       \* 3. Open Forge
       Click(16, Hammer, "error"),
       \* 4. Verify Forge Dashboard Loaded
       ExpectVisible(19, "text=FORJA DE ALMAS", "strict", "error"),
       \* 5. Verify New Categories
       ExpectVisible(23, "text=Castillo de Cristal", "strict", "error"),
       ExpectVisible(26, "text=Espada de Luz", "strict", "error"),
       \* 6. Take Screenshot
       Shot(29, "tests/verification_ghost_forge.png", "error"),
       Record(30, 0, "ok"),
       Jump(37, "finally"),
       Lab("error", Record(39, 0, "failed")),
       Shot(40, "tests/verification_failed.png", "finally_raise"),
       Lab("finally", Close(42)),
       Ret(42),
       Lab("finally_raise", Close(42)),
       Raise(42, "", "") >>

Scripts ==
    {"verify_lock_screen", "verify_canon_v3", "verify_canon_v2", "verify_nexus", "verify_canon_v4", "verify_palette", "verify_sidebar_ghost", "verify_a11y", "verify_canon", "verify_ghost_forge", "verify_ui", "verify_ux", "verify_selector", "verify_sidebar",
     "verify_project_settings_modal", "verify_accessibility", "verify_sidebar_v2", "verify_sentinel_layout",
     "verify_forge_ui", "verify_drift", "verify_director", "verify_app",
     "verify_kinetic_ui", "verify_ban_list", "verify_theme", "verify_god_mode",
     "verify_imprenta", "verify_changes", "verify_forge_final",
     "verify_settings", "verify_world_engine", "verify_localization_full"}

Program(s) ==
    CASE s = "verify_sidebar" -> verify_sidebar
      [] s = "verify_a11y" -> verify_a11y
      [] s = "verify_nexus" -> verify_nexus
      [] s = "verify_lock_screen" -> verify_lock_screen
      [] s = "verify_canon_v3" -> verify_canon_v3
      [] s = "verify_canon_v2" -> verify_canon_v2
      [] s = "verify_palette" -> verify_palette
      [] s = "verify_canon_v4" -> verify_canon_v4
      [] s = "verify_sidebar_ghost" -> verify_sidebar_ghost
      [] s = "verify_canon" -> verify_canon
      [] s = "verify_ghost_forge" -> verify_ghost_forge
      [] s = "verify_ui" -> verify_ui
      [] s = "verify_project_settings_modal" -> verify_project_settings_modal
      [] s = "verify_accessibility" -> verify_accessibility
      [] s = "verify_ux" -> verify_ux
      [] s = "verify_selector" -> verify_selector
      [] s = "verify_sidebar_v2" -> verify_sidebar_v2
      [] s = "verify_sentinel_layout" -> verify_sentinel_layout
      [] s = "verify_forge_ui" -> verify_forge_ui
      [] s = "verify_drift" -> verify_drift
      [] s = "verify_director" -> verify_director
      [] s = "verify_app" -> verify_app
      [] s = "verify_kinetic_ui" -> verify_kinetic_ui
      [] s = "verify_ban_list" -> verify_ban_list
      [] s = "verify_theme" -> verify_theme
      [] s = "verify_god_mode" -> verify_god_mode
      [] s = "verify_imprenta" -> verify_imprenta
      [] s = "verify_changes" -> verify_changes
      [] s = "verify_forge_final" -> verify_forge_final
      [] s = "verify_settings" -> verify_settings
      [] s = "verify_world_engine" -> verify_world_engine
      [] s = "verify_localization_full" -> verify_localization_full

(***************************************************************************)
(* Port discovery from dev_output.log.  A line of the log is 0 when it     *)
(* holds no "http://localhost:<digits>", else the port it names.           *)
(***************************************************************************)
LogPorts == {3000, 5174}
NoLog == [exists |-> FALSE, lines |-> <<>>]

\* the last occurrence in the file instead of the first
RECURSIVE search_last(_)
search_last(lines) ==
    IF lines = <<>> THEN 0
    ELSE IF lines[Len(lines)] # 0 THEN lines[Len(lines)]
    ELSE search_last(SubSeq(lines, 1, Len(lines) - 1))

\* re.search: the first occurrence in the file, 0 when there is none
RECURSIVE search(_)
search(lines) ==
    IF lines = <<>> THEN 0
    ELSE IF Head(lines) # 0 THEN Head(lines)
    ELSE search(Tail(lines))

\* verify_director.py: port = "5173" unless the log exists and has a match
director_port(lg) ==
    IF lg.exists /\ search(lg.lines) # 0 THEN search(lg.lines) ELSE 5173

\* verify_imprenta.py: the match, else (no match, or FileNotFoundError) the
\* default fallback
get_dev_server_url(lg) ==
    IF ~lg.exists THEN 5173
    ELSE IF search(lg.lines) # 0 THEN search(lg.lines)
    ELSE 5173

\* the match alone, without the default set before the file is read
get_port_no_default(lg) == search(lg.lines)

\* verify_sidebar_ghost.py: port = "3001" unless the log can be read and
\* has a match; an error reading it is caught and printed
get_port(lg) ==
    IF lg.exists /\ search(lg.lines) # 0 THEN search(lg.lines) ELSE 3001

(***************************************************************************)
(* The interpreter.                                                        *)
(***************************************************************************)
\* the table of the running script (prog = Program(script) in every state)
Prog == prog
Cur == Prog[pc]
Running == pc > 0

Target(lab) == CHOOSE i \in 1..Len(Prog) : Prog[i].lab = lab

\* the selector, and its place in a fallback chain, a row works on
SelOf(ins) == IF ins.sel = "@" THEN loc.sel ELSE ins.sel
ChainOf(ins) == IF ins.sel = "@" THEN loc.chain ELSE ins.chain
RankOf(ins) == IF ins.sel = "@" THEN loc.rank ELSE ins.rank

Ev(res, n, late) ==
    [at |-> pc, res |-> res, n |-> n, late |-> late, sel |-> SelOf(Cur),
     chain |-> ChainOf(Cur), rank |-> RankOf(Cur), port |-> 0, live |-> {},
     other |-> FALSE]

\* the row of the script an event of the trace was made by
Row(e) == Prog[e.at]

\* the call returns: go on with the next row
Return(ev) ==
    /\ trace' = Append(trace, ev)
    /\ pc' = pc + 1
    /\ UNCHANGED <<exit, exc>>

\* a test is false: go to the else branch
Else(ev) ==
    /\ trace' = Append(trace, ev)
    /\ pc' = Target(Cur.els)
    /\ UNCHANGED <<exit, exc>>

\* the call raises: to the handler of the enclosing try, or out of the
\* script, which ends the process with a traceback and exit code 1
Throw(kind, ev) ==
    /\ trace' = Append(trace, ev)
    /\ exc' = kind
    /\ IF Cur.exc = ""
         THEN pc' = 0 /\ exit' = 1
         ELSE pc' = Target(Cur.exc) /\ exit' = exit

\* elements a waiting call (click, wait_for_selector, expect) gets to see:
\* those present now, or the one that mounts before its timeout expires
Waited(now, late) == IF now > 0 THEN now ELSE IF late THEN 1 ELSE 0

\* the port the last navigation went to
LastPort ==
    LET G == {i \in 1..Len(trace) : Row(trace[i]).op = "goto"}
    IN trace[CHOOSE i \in G : \A j \in G : j <= i].port

\* some navigation has succeeded: the page shows the application
Navigated ==
    \E i \in 1..Len(trace) : Row(trace[i]).op = "goto" /\ trace[i].res = "ok"

\* the port a navigation row goes to
GotoPort ==
    CASE Cur.mode = "url" -> url
      [] Cur.mode = "reload" -> LastPort
      [] OTHER -> Cur.port

\* p.chromium.launch(...)
launch ==
    /\ Running /\ Cur.op = "launch"
    /\ browser' = "open"
    /\ opened' = opened + 1
    /\ sid' = opened + 1
    /\ Return(Ev("ok", 0, FALSE))
    /\ UNCHANGED <<sched, disk, script, prog, loc, cnt, url, log, live>>

\* the port is read from the log; no request is sent to it
resolve ==
    /\ Running /\ Cur.op = "resolve"
    /\ url' = CASE Cur.mode = "director" -> director_port(log)
                [] Cur.mode = "ghost" -> get_port(log)
                [] OTHER -> get_dev_server_url(log)
    /\ Return([Ev("ok", 0, FALSE) EXCEPT !.port = url', !.live = live])
    /\ UNCHANGED <<sched, world, script, prog, browser, loc, cnt, log, live>>

\* page.goto(url), page.reload()
goto ==
    /\ Running /\ Cur.op = "goto"
    /\ LET ev == [Ev("ok", 0, FALSE) EXCEPT !.port = GotoPort]
       IN IF GotoPort \in live
            THEN Return(ev)
            ELSE Throw("Nav", [ev EXCEPT !.res = "raise"])
    /\ UNCHANGED <<sched, world, script, prog, browser, loc, cnt, url, log, live>>

\* what a wait that runs out raises: expect(...) an AssertionError,
\* wait_for_selector a TimeoutError
Expired == IF Cur.expect THEN "Assertion" ELSE "Timeout"

\* page.wait_for_selector(sel), expect(locator).to_be_visible(),
\* locator.wait_for(state="visible"): waits for its own selector only;
\* other = while a wait of an either-or group ran out, the element of
\* another member of the group was on the page
wait ==
    /\ Running /\ Cur.op = "wait"
    /\ \E now \in 0..MaxMatch, late \in BOOLEAN, other \in BOOLEAN :
         LET w == Waited(now, late)
         IN /\ other => (Cur.group # "" /\ w = 0)
            /\ CASE w = 0 -> Throw(Expired, [Ev("raise", 0, FALSE) EXCEPT !.other = other])
                 [] w >= 2 /\ Cur.mode = "strict" -> Throw("Strict", Ev("raise", 0, FALSE))
                 [] OTHER -> Return(Ev("ok", 0, FALSE))
    /\ UNCHANGED <<sched, world, script, prog, browser, loc, cnt, url, log, live>>

\* expect(locator).not_to_be_visible(), wait_for_selector(state="hidden")
hidden ==
    /\ Running /\ Cur.op = "hidden"
    /\ \E now \in 0..MaxMatch :
         CASE now = 0 -> Return(Ev("ok", 0, FALSE))
           [] now >= 2 /\ Cur.mode = "strict" -> Throw("Strict", Ev("raise", 0, FALSE))
           [] OTHER -> Throw(Expired, Ev("raise", 0, FALSE))
    /\ UNCHANGED <<sched, world, script, prog, browser, loc, cnt, url, log, live>>

\* btn = page.get_by_label(...): building a locator queries nothing
bind ==
    /\ Running /\ Cur.op = "bind"
    /\ loc' = [sel |-> Cur.sel, chain |-> Cur.chain, rank |-> Cur.rank]
    /\ Return(Ev("ok", 0, FALSE))
    /\ UNCHANGED <<sched, world, script, prog, browser, cnt, url, log, live>>

\* locator.is_visible() and locator.count() look once, now, and do not
\* wait; late = an element mounts only after the look
probe ==
    /\ Running /\ Cur.op = "probe"
    /\ \E now \in 0..MaxMatch, late \in BOOLEAN :
         /\ (late => now = 0)
         /\ CASE now = 0 -> Else(Ev("no", 0, late))
              [] now >= 2 /\ Cur.mode = "strict" -> Throw("Strict", Ev("raise", now, FALSE))
              [] OTHER -> Return(Ev("yes", now, FALSE))
    /\ UNCHANGED <<sched, world, script, prog, browser, loc, cnt, url, log, live>>

\* locator.click(): waits for the element; a strict locator that resolves
\* to several elements raises, .first takes the first of them
click ==
    /\ Running /\ Cur.op = "click"
    /\ \E now \in 0..MaxMatch, late \in BOOLEAN :
         LET w == Waited(now, late)
         IN CASE w = 0 -> Throw("Timeout", Ev("raise", 0, FALSE))
              [] w >= 2 /\ Cur.mode = "strict" -> Throw("Strict", Ev("raise", w, FALSE))
              [] OTHER -> Return(Ev("ok", w, FALSE))
    /\ UNCHANGED <<sched, world, script, prog, browser, loc, cnt, url, log, live>>

\* the file name carries the number of the browser it was taken in
artifact_path_per_run(ins) == ins.path \o "." \o ToString(opened)

\* the file a screenshot row writes: the string literal of its path=
artifact_path(ins) == ins.path

\* page.screenshot(path=...): writes the file, replacing one of that name
shot ==
    /\ Running /\ Cur.op = "shot"
    /\ \/ /\ Return(Ev("ok", 0, FALSE))
          /\ disk' = disk \cup {[path |-> artifact_path(Cur), by |-> me]}
       \/ /\ Throw("Shot", Ev("raise", 0, FALSE))
          /\ disk' = disk
    /\ UNCHANGED <<sched, sid, opened, script, prog, browser, loc, cnt, url, log, live>>

\* any other driver call: evaluate, fill, keyboard.press, select_option;
\* the dump of page.content() to a file; the registration of a listener,
\* which prints each console message as it arrives and cannot fail
call ==
    /\ Running /\ Cur.op = "call"
    /\ \/ /\ Return(Ev("ok", 0, FALSE))
          /\ disk' = IF Cur.mode = "dump"
                       THEN disk \cup {[path |-> Cur.path, by |-> me]}
                       ELSE disk
       \/ /\ Cur.mode \notin {"listen", "say"}
          /\ Throw("Call", Ev("raise", 0, FALSE))
          /\ disk' = disk
    /\ UNCHANGED <<sched, sid, opened, script, prog, browser, loc, cnt, url, log, live>>

\* assert locator.get_attribute(name) == value,
\* expect(locator).to_have_attribute(name, value): an AssertionError when
\* the value differs, the driver's own error when the call fails
expect ==
    /\ Running /\ Cur.op = "expect"
    /\ \/ Navigated /\ Return(Ev("ok", 0, FALSE))
       \/ Throw("Assertion", Ev("raise", 0, FALSE))
       \/ Throw("Call", Ev("raise", 0, FALSE))
    /\ UNCHANGED <<sched, world, script, prog, browser, loc, cnt, url, log, live>>

\* print of a step's success or failure message
record ==
    /\ Running /\ Cur.op = "record"
    /\ Return(Ev(Cur.status, 0, FALSE))
    /\ UNCHANGED <<sched, world, script, prog, browser, loc, cnt, url, log, live>>

\* if observed != expected: print("ERROR ...") else: print("SUCCESS ...");
\* a page that never loaded does not show the expected colours
check ==
    /\ Running /\ Cur.op = "check"
    /\ \E holds \in BOOLEAN :
         /\ holds => Navigated
         /\ Return(Ev(IF holds THEN "ok" ELSE "failed", 0, FALSE))
    /\ UNCHANGED <<sched, world, script, prog, browser, loc, cnt, url, log, live>>

\* except-branch of the body of for i in range(count): next iteration, or
\* past the loop after the last one
loop ==
    /\ Running /\ Cur.op = "loop"
    /\ cnt' = cnt + 1
    /\ trace' = Append(trace, Ev("retry", 0, FALSE))
    /\ pc' = IF cnt + 1 < Cur.count THEN Target(Cur.to) ELSE pc + 1
    /\ UNCHANGED <<sched, world, script, prog, browser, exit, exc, loc, url, log, live>>

\* browser.close()
close ==
    /\ Running /\ Cur.op = "close"
    /\ browser' = "closed"
    /\ Return(Ev("ok", 0, FALSE))
    /\ UNCHANGED <<sched, world, script, prog, loc, cnt, url, log, live>>

\* end of a try body or of a branch
jump ==
    /\ Running /\ Cur.op = "jump"
    /\ pc' = Target(Cur.to)
    /\ UNCHANGED <<sched, world, script, prog, browser, exit, exc, loc, cnt, url, log, live, trace>>

\* return, or the end of the script: the process ends with exit code 0
ret ==
    /\ Running /\ Cur.op = "ret"
    /\ pc' = 0
    /\ exit' = 0
    /\ UNCHANGED <<sched, world, script, prog, browser, exc, loc, cnt, url, log, live, trace>>

\* raise e (the exception being handled), raise Exception(...)
raise ==
    /\ Running /\ Cur.op = "raise"
    /\ Throw(IF Cur.mode = "" THEN exc ELSE Cur.mode, Ev("raise", 0, FALSE))
    /\ UNCHANGED <<sched, world, script, prog, browser, loc, cnt, url, log, live>>

\* the dev server comes up on the port a navigation is about to ask
ServerStart ==
    /\ Running /\ Cur.op = "goto"
    /\ GotoPort \notin live
    /\ live' = live \cup {GotoPort}
    /\ UNCHANGED <<sched, world, script, prog, pc, browser, exit, exc, loc, cnt, url, log, trace>>

NoLoc == [sel |-> "", chain |-> "", rank |-> 0]

\* the registers of a process about to run script s as process n
Fresh(s, n) ==
    [script |-> s, pc |-> 1, browser |-> "none", exit |-> -1, exc |-> "none",
     loc |-> NoLoc, cnt |-> 0, url |-> 0, trace |-> <<>>, me |-> n, sid |-> 0]

\* no second process
NoPeer == Fresh("", 0)

\* sequences over S of length at most n
RECURSIVE SeqsUpTo(_, _)
SeqsUpTo(S, n) ==
    IF n = 0 THEN {<<>>}
    ELSE SeqsUpTo(S, n - 1) \cup
         {Append(q, x) : q \in {r \in SeqsUpTo(S, n - 1) : Len(r) = n - 1}, x \in S}

Rows(s) == {Program(s)[i] : i \in 1..Len(Program(s))}
Resolves(s) == \E r \in Rows(s) : r.op = "resolve"

\* the ports the script may navigate to
PortsOf(s) ==
    {r.port : r \in {q \in Rows(s) : q.op = "goto" /\ q.port # 0}}
        \cup (IF Resolves(s) THEN LogPorts \cup {5173} ELSE {})
        \cup (IF \E r \in Rows(s) : r.mode = "ghost" THEN {3001} ELSE {})

Logs == {NoLog} \cup
        {[exists |-> TRUE, lines |-> l] : l \in SeqsUpTo({0} \cup LogPorts, MaxLogLen)}

Init ==
    /\ script \in Scripts
    /\ prog = Program(script)
    /\ pc = 1
    /\ browser = "none"
    /\ exit = -1
    /\ exc = "none"
    /\ loc = NoLoc
    /\ cnt = 0
    /\ url = 0
    /\ log \in (IF Resolves(script) THEN Logs ELSE {NoLog})
    /\ live \in SUBSET PortsOf(script)
    /\ trace = <<>>
    /\ me = 1
    /\ sid = 0
    /\ peer = NoPeer
    /\ opened = 0
    /\ disk = {}

Next ==
    \/ launch \/ resolve \/ goto \/ wait \/ hidden \/ bind \/ probe \/ click
    \/ shot \/ call \/ expect \/ record \/ check \/ loop \/ close \/ jump \/ ret \/ raise
    \/ ServerStart

Spec == Init /\ [][Next]_vars

(***************************************************************************)
(* Two script processes on one machine.  Every script is started with      *)
(* python <file> from the repository root, so two of them share the        *)
(* working directory, and with it the verification/ folder, and the dev    *)
(* servers; each has its own interpreter and launches its own browser.     *)
(* The model keeps the registers of the process that is not running in     *)
(* peer and lets the processor go from one to the other between any two    *)
(* driver calls.  Two processes of one script are a run and its re-run:    *)
(* the second starts when the first has ended.                             *)
(***************************************************************************)
Regs ==
    [script |-> script, pc |-> pc, browser |-> browser, exit |-> exit,
     exc |-> exc, loc |-> loc, cnt |-> cnt, url |-> url, trace |-> trace,
     me |-> me, sid |-> sid]

yield ==
    /\ peer.script # "" /\ peer.pc # 0
    /\ peer.script = script => pc = 0
    /\ peer' = Regs
    /\ script' = peer.script
    /\ prog' = Program(peer.script)
    /\ pc' = peer.pc
    /\ browser' = peer.browser
    /\ exit' = peer.exit
    /\ exc' = peer.exc
    /\ loc' = peer.loc
    /\ cnt' = peer.cnt
    /\ url' = peer.url
    /\ trace' = peer.trace
    /\ me' = peer.me
    /\ sid' = peer.sid
    /\ UNCHANGED <<log, live, opened, disk>>

\* the scripts run side by side: two that write verification.png on
\* different dev servers, and one with a screenshot for either outcome
ParScripts == {"verify_kinetic_ui", "verify_a11y", "verify_selector"}

\* the scripts whose screenshots carry a step number in their file name
StepIndexed ==
    {"verify_sidebar", "verify_sidebar_v2", "verify_sentinel_layout", "verify_changes"}

\* what is started: any two of ParScripts, verify_sidebar beside
\* verify_kinetic_ui, or one of the StepIndexed scripts alone
Starts ==
    {<<a, Fresh(b, 2)>> : a \in ParScripts, b \in ParScripts}
        \cup {<<"verify_sidebar", Fresh("verify_kinetic_ui", 2)>>}
        \cup {<<a, NoPeer>> : a \in StepIndexed}

InitPar ==
    /\ \E st \in Starts : script = st[1] /\ peer = st[2]
    /\ prog = Program(script)
    /\ pc = 1
    /\ browser = "none"
    /\ exit = -1
    /\ exc = "none"
    /\ loc = NoLoc
    /\ cnt = 0
    /\ url = 0
    /\ log \in (IF Resolves(script) THEN Logs ELSE {NoLog})
    /\ live \in SUBSET (PortsOf(script) \cup
                         (IF peer = NoPeer THEN {} ELSE PortsOf(peer.script)))
    /\ trace = <<>>
    /\ me = 1
    /\ sid = 0
    /\ opened = 0
    /\ disk = {}

\* the steps these scripts take
NextPar ==
    \/ launch \/ goto \/ wait \/ hidden \/ bind \/ probe \/ click
    \/ shot \/ call \/ record \/ close \/ jump \/ ret \/ raise
    \/ ServerStart \/ yield

SpecPar == InitPar /\ [][NextPar]_vars

(***************************************************************************)
(* Runs to their end.  A script process, once started, keeps taking its    *)
(* steps: the interpreter is never starved, and every driver call returns  *)
(* or raises when its timeout (the one given at the call, else the         *)
(* driver's default) runs out.  Whether the dev server ever comes up is    *)
(* not up to the script, so ServerStart is under no fairness condition.    *)
(***************************************************************************)
\* the scripts whose rows carry their timeouts: one without any timeout=,
\* one that reads its port from a log, one with a retry loop
LiveScripts == {"verify_palette", "verify_sidebar_ghost", "verify_theme"}

InitLive == Init /\ script \in LiveScripts

\* a step of the script
step ==
    \/ launch \/ resolve \/ goto \/ wait \/ probe \/ click \/ shot \/ call
    \/ record \/ check \/ loop \/ close \/ jump \/ ret

NextLive == step \/ ServerStart

SpecLive == InitLive /\ [][NextLive]_vars /\ WF_vars(step)

(***************************************************************************)
(* Observations of a run, read off the trace.                              *)
(***************************************************************************)
Idx == 1..Len(trace)
OpAt(i) == Row(trace[i]).op
LineAt(i) == Row(trace[i]).line
StepAt(i) == Row(trace[i]).step
IsResult(i) == OpAt(i) \in {"record", "check"}
FailedAt(i) == IsResult(i) /\ trace[i].res = "failed"
ShotAt(i) == OpAt(i) = "shot" /\ trace[i].res = "ok"
Ended == pc = 0

\* a step of a locator fallback chain: a look at, or a click on, the
\* locator of rank r of the chain
Attempt(i) == OpAt(i) \in {"probe", "click"} /\ trace[i].rank > 0
SameChain(i, j) == trace[i].chain = trace[j].chain

\* the endpoint hints of the scripts that read the log, in priority order:
\* the first localhost URL in dev_output.log, then the default port
HasMatch(lg) == lg.exists /\ \E k \in 1..Len(lg.lines) : lg.lines[k] # 0
FirstMatch(lg) ==
    lg.lines[CHOOSE k \in 1..Len(lg.lines) :
                 lg.lines[k] # 0 /\ \A m \in 1..(k - 1) : lg.lines[m] = 0]
\* the hard-coded default of the script: "3001" in verify_sidebar_ghost.py,
\* "5173" in verify_director.py and verify_imprenta.py
DefaultPort == IF script = "verify_sidebar_ghost" THEN 3001 ELSE 5173
Hints(lg) ==
    IF HasMatch(lg) THEN <<FirstMatch(lg), DefaultPort>> ELSE <<DefaultPort>>

(***************************************************************************)
(* C1                                                                      *)
(***************************************************************************)
\* the failure prints whose except-branch ends the run with a return
EndsRun(s) ==
    CASE s = "verify_sidebar" -> {26, 41}
      [] s = "verify_sidebar_v2" -> {17, 54}
      [] s = "verify_sentinel_layout" -> {14}
      [] OTHER -> {}

LastStep(s) == IF s = "verify_sentinel_layout" THEN 3 ELSE 5

StepScripts == {"verify_sidebar", "verify_sidebar_v2", "verify_sentinel_layout"}

C3_ArtifactOnFailure ==
    Ended =>
      \A i \in Idx :
          FailedAt(i) =>
             \E j \in Idx :
                /\ j > i /\ ShotAt(j)
                /\ \A m \in Idx : (i < m /\ m < j) => ~IsResult(m)

(***************************************************************************)
(* C4                                                                      *)
(***************************************************************************)
\* no step was recorded failed and no exception left the script
ScenarioPassed ==
    /\ \A i \in Idx : ~FailedAt(i)
    /\ (trace # <<>> => trace[Len(trace)].res # "raise")

\* C4, as claimed: the exit code is 0 if and only if the scenario passed.
C4_ExitCodeZeroIffPass ==
    Ended => (exit = 0 <=> ScenarioPassed)

(***************************************************************************)
(* C5                                                                      *)
(***************************************************************************)
\* C5, as claimed: a step failure never ends the process as an uncaught
\* exception; the run always returns.
C5_NoUncaughtException ==
    Ended => exit = 0

(***************************************************************************)
(* C6                                                                      *)
(***************************************************************************)
\* C6, as claimed: the port returned is that of the first hint, in list
\* order, whose endpoint is live.
C6_FirstLiveHint ==
    \A i \in Idx :
        OpAt(i) = "resolve" =>
           LET h == Hints(log)
           IN \A k \in 1..Len(h) :
                 (h[k] \in trace[i].live /\ \A m \in 1..(k - 1) : h[m] \notin trace[i].live)
                    => trace[i].port = h[k]

\* C6, amended: the port returned is that of the first hint in list order
\* that yields a candidate (the first localhost URL of the log, else the
\* default), whether or not anything answers there.
C6_FirstCandidateNoProbe ==
    \A i \in Idx :
        OpAt(i) = "resolve" => trace[i].port = Hints(log)[1]

\* the log names a port on which nothing answers, the default port is
\* live, and the log's port is returned
C6_Witness ==
    \E i \in Idx :
        /\ OpAt(i) = "resolve"
        /\ HasMatch(log)
        /\ trace[i].port = FirstMatch(log)
        /\ trace[i].port \notin trace[i].live
        /\ 5173 \in trace[i].live

(***************************************************************************)
(* C7                                                                      *)
(***************************************************************************)
\* C7, as claimed: when no hint is live the run aborts at resolution, and
\* no session is opened and no navigation issued before the resolution.
C7_ResolveBeforeSession ==
    Resolves(script) =>
      /\ \A i \in Idx :
            ( /\ OpAt(i) = "resolve"
              /\ \A k \in 1..Len(Hints(log)) : Hints(log)[k] \notin trace[i].live )
            => \A j \in Idx : j > i => OpAt(j) \notin {"launch", "goto"}
      /\ \A j \in Idx :
            OpAt(j) \in {"launch", "goto"} => \E i \in Idx : i < j /\ OpAt(i) = "resolve"

\* C7, amended: the resolution never fails (it always yields a port); in
\* verify_director.py and verify_imprenta.py it happens with the session
\* already open, in verify_sidebar_ghost.py before the launch; no
\* navigation is issued before it, and every navigation goes to the port
\* it yielded.
C7_NavigateOnlyAfterResolve ==
    Resolves(script) =>
      /\ \A i \in Idx :
            OpAt(i) = "resolve" =>
               /\ trace[i].res = "ok" /\ trace[i].port # 0
               /\ (\E l \in Idx : l < i /\ OpAt(l) = "launch")
                     <=> script # "verify_sidebar_ghost"
      /\ \A j \in Idx :
            OpAt(j) = "goto" =>
               \E i \in Idx : i < j /\ OpAt(i) = "resolve" /\ trace[j].port = trace[i].port

\* no hint was live at the resolution, and the navigation was issued all
\* the same and failed
C7_Witness ==
    /\ Resolves(script)
    /\ \E i \in Idx, j \in Idx :
          /\ i < j
          /\ OpAt(i) = "resolve"
          /\ \A k \in 1..Len(Hints(log)) : Hints(log)[k] \notin trace[i].live
          /\ OpAt(j) = "goto" /\ trace[j].res = "raise"

(***************************************************************************)
(* C8                                                                      *)
(***************************************************************************)
\* C8, as claimed: no click ever lands on the first of several matching
\* elements.
C8_AmbiguousMatchFails ==
    \A i \in Idx :
        (OpAt(i) = "click" /\ trace[i].res = "ok") => trace[i].n <= 1

\* the clicks made through .first
FirstPicks(s) ==
    CASE s = "verify_changes" -> {152, 161}
      [] s = "verify_settings" -> {44, 50}
      [] s = "verify_forge_final" -> {28}
      [] OTHER -> {}

\* C8, amended: a click made through .first fails only when nothing
\* matches; with several matches the first is clicked. The strict click of
\* verify_forge_final (line 25) does raise on several matches, and the bare
\* except swallows that: the next thing done is the .first click of line 28.
C8_FirstOfSeveralIsClicked ==
    /\ \A i \in Idx :
          (OpAt(i) = "click" /\ LineAt(i) \in FirstPicks(script) /\ trace[i].res = "raise")
             => trace[i].n = 0
    /\ \A i \in Idx :
          ( /\ script = "verify_forge_final" /\ LineAt(i) = 25
            /\ trace[i].res = "raise" /\ i < Len(trace) )
          => LineAt(i + 1) = 28

\* verify_changes: two user icons match and the first is clicked
C8_Witness ==
    /\ script = "verify_changes"
    /\ \E i \in Idx : LineAt(i) = 152 /\ trace[i].res = "ok" /\ trace[i].n = 2

C10_FullSubTimeout ==
    \A i \in Idx, j \in Idx :
        ( /\ i < j /\ Attempt(i) /\ SameChain(i, j)
          /\ trace[j].rank > trace[i].rank )
        => ~trace[i].late

ProbeChains ==
    {"verify_director", "verify_sidebar", "verify_sidebar_v2", "verify_localization_full"}

\* C10, amended: in the is_visible() chains, binding the first locator is
\* followed by exactly one immediate look; when that look finds nothing,
\* the very next thing is the binding of the fallback locator (no wait, no
\* second look), and when it finds the element the chain stays on it.
C10_OneImmediateProbe ==
    script \in ProbeChains =>
      \A i \in Idx :
          (OpAt(i) = "bind" /\ trace[i].rank = 1) =>
             /\ i < Len(trace) =>
                   /\ OpAt(i + 1) = "probe"
                   /\ SameChain(i, i + 1) /\ trace[i + 1].rank = 1
             /\ (i + 1 < Len(trace) /\ trace[i + 1].res = "no") =>
                   /\ OpAt(i + 2) = "bind"
                   /\ SameChain(i, i + 2) /\ trace[i + 2].rank = 2
             /\ (i + 1 < Len(trace) /\ trace[i + 1].res = "yes") =>
                   /\ SameChain(i, i + 2) /\ trace[i + 2].rank = 1

\* verify_director: the button by label mounts just after the look, and the
\* button by title is the one clicked
C10_Witness ==
    /\ script = "verify_director"
    /\ \E i \in Idx, j \in Idx :
          /\ i < j
          /\ LineAt(i) = 31 /\ trace[i].res = "no" /\ trace[i].late
          /\ LineAt(j) = 35 /\ trace[j].res = "ok" /\ trace[j].rank = 2

(***************************************************************************)
(* C11                                                                     *)
(***************************************************************************)
\* an attempt that found no element: a look that saw nothing, or a click
\* that timed out with nothing to click
NoMatch(i) == Attempt(i) /\ trace[i].res \in {"no", "raise"} /\ trace[i].n = 0

\* the rank of the last locator of a chain of the script
LastRank(c) ==
    LET R == {r.rank : r \in {q \in Rows(script) : q.chain = c}}
    IN CHOOSE m \in R : \A k \in R : k <= m

\* attempt i ends its chain without any locator of the chain having matched
Exhausted(i) ==
    /\ NoMatch(i)
    /\ trace[i].rank = LastRank(trace[i].chain)
    /\ \A k \in Idx : (k < i /\ Attempt(k) /\ SameChain(k, i)) => NoMatch(k)

\* C11, as claimed: when no locator of a chain matches, the lookup fails
\* (an exception, or the step recorded failed at once) and nothing is
\* clicked for that step.
C11_NotFoundFails ==
    \A i \in Idx :
        Exhausted(i) =>
           /\ \/ trace[i].res = "raise"
              \/ i < Len(trace) => FailedAt(i + 1)
           /\ \A j \in Idx :
                 (j > i /\ SameChain(i, j)) => ~(OpAt(j) = "click" /\ trace[j].res = "ok")

\* C11, amended: when no locator of a chain matches, nothing of the chain
\* is clicked, then or later, and no click ever succeeds on zero elements.
\* The exhaustion is an exception only where the last locator is clicked
\* directly; where it is tested with is_visible() or count() the script
\* takes the else branch, which in verify_changes, verify_settings and
\* verify_canon reports no failure and goes on to the next check.
C11_NothingClickedWhenNothingMatches ==
    /\ \A j \in Idx :
          (OpAt(j) = "click" /\ trace[j].res = "ok") => trace[j].n >= 1
    /\ \A i \in Idx :
          Exhausted(i) =>
             /\ \A j \in Idx :
                   (j > i /\ SameChain(i, j)) => ~(OpAt(j) = "click" /\ trace[j].res = "ok")
             /\ (OpAt(i) = "click" /\ i = Len(trace)) => exc = "Timeout"
             /\ (OpAt(i) = "probe" /\ i < Len(trace)) => OpAt(i + 1) # "click"

\* verify_world_engine: neither the label nor the title matched, and the
\* script has raised
C11_Witness ==
    /\ script = "verify_world_engine" /\ Ended
    /\ \E i \in Idx : LineAt(i) = 35 /\ Exhausted(i)

(***************************************************************************)
(* C12                                                                     *)
(***************************************************************************)
\* a wait for one member of an either-or group
GroupWait(i) == OpAt(i) = "wait" /\ Row(trace[i]).group # ""
SameGroup(i, j) == Row(trace[i]).group = Row(trace[j]).group

\* C12, as claimed: an any-of group is ready as soon as one of its members
\* holds: no wait of the group runs out while another member of the group
\* is on the page.
C12_AnyOfAsSoonAsOneHolds ==
    \A i \in Idx :
        (GroupWait(i) /\ trace[i].res = "raise") => ~trace[i].other

\* C12, amended: the members of an either-or group are awaited one after
\* the other, in source order. A member is awaited only directly after
\* the one before it has run out, whether or not its own element was on
\* the page in the meantime; as soon as one wait returns the group has
\* succeeded and the remaining members are not awaited, so it succeeds
\* even if they never hold.
C12_MembersAwaitedInTurn ==
    /\ \A i \in Idx, j \in Idx :
          (i < j /\ GroupWait(i) /\ GroupWait(j) /\ SameGroup(i, j)) =>
             /\ trace[i].res = "raise"
             /\ LineAt(i) < LineAt(j)
             /\ j = i + 1
    /\ \A i \in Idx :
          (GroupWait(i) /\ trace[i].res = "ok" /\ i < Len(trace)) =>
             /\ OpAt(i + 1) = "record" /\ trace[i + 1].res = "ok"
             /\ \A j \in Idx : j > i => ~(GroupWait(j) /\ SameGroup(i, j))

\* verify_ux: a session item was on the page while the wait for the
\* empty-state text ran out, and the wait for the items then returned
C12_Witness ==
    /\ script = "verify_ux"
    /\ \E i \in Idx :
          /\ LineAt(i) = 35 /\ trace[i].res = "raise" /\ trace[i].other
          /\ i < Len(trace) /\ LineAt(i + 1) = 40 /\ trace[i + 1].res = "ok"

(***************************************************************************)
(* C13                                                                     *)
(***************************************************************************)
\* the line of the wait for the application to have loaded
ReadyWait(s) ==
    CASE s = "verify_sidebar" -> 23
      [] s = "verify_sidebar_v2" -> 14
      [] s = "verify_canon" -> 34
      [] s = "verify_ux" -> 13
      [] s = "verify_sentinel_layout" -> 19
      [] OTHER -> 0

ReadyScripts ==
    {"verify_sidebar", "verify_sidebar_v2", "verify_canon", "verify_ux",
     "verify_sentinel_layout"}

\* the wait for the application to have loaded has run out
ReadyTimeout(i) ==
    /\ script \in ReadyScripts
    /\ OpAt(i) = "wait" /\ LineAt(i) = ReadyWait(script) /\ trace[i].res = "raise"

\* C13, as claimed: when the readiness wait runs out the run is aborted:
\* nothing follows but the report of the failure, the capture of the
\* artifact and the close of the session, and an artifact has been
\* captured by the end.
C13_ReadinessTimeoutAborts ==
    \A i \in Idx :
        ReadyTimeout(i) =>
           /\ \A j \in Idx : j > i => OpAt(j) \in {"record", "shot", "close", "raise"}
           /\ Ended => \E j \in Idx : j > i /\ ShotAt(j)

\* C13, amended: in verify_sidebar, verify_sidebar_v2, verify_canon and
\* verify_ux a readiness wait that runs out is reported, the error
\* screenshot is attempted next, and nothing else is done but closing the
\* browser; the run that then ends normally has its screenshot.  In
\* verify_sentinel_layout the timeout is only reported ("continuing...")
\* and the run goes on with the screenshot of step 1 and the steps after it.
C13_ReadinessTimeoutAbortsOrContinues ==
    \A i \in Idx :
        ReadyTimeout(i) =>
           /\ i < Len(trace) => FailedAt(i + 1)
           /\ i + 1 < Len(trace) => OpAt(i + 2) = "shot"
           /\ script # "verify_sentinel_layout" =>
                 /\ \A j \in Idx : j > i => OpAt(j) \in {"record", "shot", "close", "raise"}
                 /\ (Ended /\ exit = 0) =>
                       /\ browser = "closed"
                       /\ \E j \in Idx : j > i /\ ShotAt(j)
           /\ (script = "verify_sentinel_layout" /\ i + 1 < Len(trace)) =>
                 LineAt(i + 2) = 25
           /\ (script = "verify_sentinel_layout" /\ Ended /\ exit = 0) =>
                 \E j \in Idx : j > i /\ IsResult(j) /\ StepAt(j) = 3

\* verify_canon: main never appeared, error_state.png was taken, the
\* browser closed and the run has ended
C13_Witness ==
    /\ script = "verify_canon" /\ Ended /\ browser = "closed"
    /\ \E i \in Idx :
          /\ ReadyTimeout(i)
          /\ \E j \in Idx : j > i /\ ShotAt(j) /\ LineAt(j) = 37

(***************************************************************************)
(* C14                                                                     *)
(***************************************************************************)
\* an assertion: expect(...), assert, or an if-comparison that prints
Assertion(i) == Row(trace[i]).expect \/ OpAt(i) = "check"

\* C14, as claimed: an assertion whose expectation does not hold does not
\* raise: no assertion ends in an AssertionError.
C14_AssertNeverRaises ==
    \A i \in Idx :
        (i = Len(trace) /\ Assertion(i) /\ trace[i].res = "raise") => exc # "Assertion"

\* C14, amended: only the if-comparisons return an outcome: they report ok
\* or failed and the next statement runs.  expect(...) and assert never
\* report failed: when the expectation does not hold they raise (an
\* AssertionError; an ambiguous locator or a failed driver call raises its
\* own error) and the statements after them are skipped, so that the
\* success message of verify_project_settings_modal and of
\* verify_accessibility is printed only when every expectation held.
C14_ExpectRaisesCheckReturns ==
    /\ \A i \in Idx :
          OpAt(i) = "check" =>
             /\ trace[i].res \in {"ok", "failed"}
             /\ i = Len(trace) => (pc = 0 => exit = 0)
             /\ (script = "verify_theme" /\ LineAt(i) = 33 /\ i < Len(trace)) =>
                   LineAt(i + 1) = 38
    /\ \A i \in Idx :
          Row(trace[i]).expect =>
             /\ trace[i].res \in {"ok", "raise"}
             /\ (i = Len(trace) /\ trace[i].res = "raise") =>
                   /\ exc \in {"Assertion", "Strict", "Call"}
                   /\ pc # trace[i].at + 1
    /\ \A i \in Idx :
          ( /\ script \in {"verify_project_settings_modal", "verify_accessibility"}
            /\ OpAt(i) = "record" /\ trace[i].res = "ok" )
          => \A k \in Idx : k < i => trace[k].res = "ok"

\* verify_project_settings_modal: the role is not "dialog", the assert of
\* line 26 raises AssertionError and the except-branch reports the failure
C14_Witness ==
    /\ script = "verify_project_settings_modal"
    /\ exc = "Assertion"
    /\ \E i \in Idx :
          /\ LineAt(i) = 26 /\ trace[i].res = "raise"
          /\ i < Len(trace) /\ LineAt(i + 1) = 45 /\ FailedAt(i + 1)

(***************************************************************************)
(* C15                                                                     *)
(***************************************************************************)
SoftScripts == {"verify_sidebar", "verify_sidebar_v2", "verify_ui", "verify_theme"}

\* the failure reports of the steps that are not soft: their branch
\* returns or re-raises
HardLines(s) == EndsRun(s) \cup (IF s = "verify_ui" THEN {17} ELSE {})

\* the last numbered step of the script
FinalStep(s) ==
    CASE s = "verify_ui" -> 6
      [] s = "verify_theme" -> 2
      [] OTHER -> 5

HardFail(i) == FailedAt(i) /\ LineAt(i) \in HardLines(script)
SoftFail(i) == FailedAt(i) /\ LineAt(i) \notin HardLines(script)

C16_CaptureFailureHarmless ==
    /\ \A i \in Idx :
          (OpAt(i) = "shot" /\ trace[i].res = "raise" /\ i = Len(trace))
             => ~(pc = 0 /\ exit = 1)
    /\ (\A i \in Idx : OpAt(i) \notin {"shot", "record"} => trace[i].res \notin {"raise", "failed"})
          => (\A i \in Idx : ~FailedAt(i))

(***************************************************************************)
(* C17.  When two distinct scenarios run in parallel, in every             *)
(* interleaving no artifact path is written by both of them and no         *)
(* browser session is used by both of them.                                *)
(***************************************************************************)
\* the two processes run different scripts
Distinct == peer.script # "" /\ peer.script # script

\* some file was written by both processes
SharedPath == \E d, e \in disk : d.path = e.path /\ d.by # e.by

\* both processes drive the same browser process
SharedSession == sid # 0 /\ sid = peer.sid

C17_NoSharedPathNoSharedSession ==
    Distinct => (~SharedPath /\ ~SharedSession)

(***************************************************************************)
(* C18.  Artifact paths are a deterministic function of scenario name,     *)
(* step index and label: running the same scenario twice writes the same   *)
(* set of paths, the second run overwriting the first, so the set of       *)
(* artifact paths after two runs equals the set after one run.             *)
(***************************************************************************)
\* the second run of a script has ended; peer holds the first run
ReRunEnded == peer.script = script /\ me = 2 /\ pc = 0

AllPaths == {d.path : d \in disk}
PathsBy(n) == {d.path : d \in {e \in disk : e.by = n}}

\* the screenshot rows that wrote their file in a run with trace t
Captures(t) ==
    {t[i].at : i \in {j \in 1..Len(t) : Prog[t[j].at].op = "shot" /\ t[j].res = "ok"}}

step_index(p) ==
    CASE p \in {"verification/1_editor_mode.png", "verification/1_editor_mode_v2.png",
                "verification/1_standard_view.png", "verification/01_initial_load.png"} -> 1
      [] p \in {"verification/2_forge_mode.png", "verification/2_forge_mode_v2.png",
                "verification/2_full_focus_forge.png",
                "verification/02_settings_general.png"} -> 2
      [] p \in {"verification/3_restored_mode.png", "verification/3_restored_mode_v2.png",
                "verification/3_overlay_director.png",
                "verification/03_settings_profile.png"} -> 3
      [] p \in {"verification/4_director_mode.png", "verification/4_director_mode_v2.png",
                "verification/04_toast_check.png"} -> 4
      [] p = "verification/05_hud_update.png" -> 5
      [] OTHER -> 0

\* event i wrote an artifact whose name carries a step index
Numbered(i) == ShotAt(i) /\ step_index(Row(trace[i]).path) > 0
IndexAt(i) == step_index(Row(trace[i]).path)

C19_CapturedInStepOrder ==
    \A i \in Idx, j \in Idx :
        (i < j /\ Numbered(i) /\ Numbered(j)) => IndexAt(i) <= IndexAt(j)

\* verify_sidebar has made its four numbered captures while
\* verify_kinetic_ui, started beside it, has written its screenshot
C19_Witness ==
    /\ script = "verify_sidebar" /\ Ended
    /\ Cardinality({i \in Idx : Numbered(i)}) = 4
    /\ peer.script = "verify_kinetic_ui" /\ \E d \in disk : d.by = 2

(***************************************************************************)
(* C21.  Every scenario run eventually reaches Completed or Aborted:       *)
(* every blocking operation (navigation, readiness polling, element        *)
(* resolution, settle-wait) returns or fails within an explicit timeout,   *)
(* so no run waits forever.                                                *)
(***************************************************************************)
\* a call that blocks until the page, or an element, is there
Blocking(i) == OpAt(i) \in {"goto", "wait", "hidden", "click"}

\* the claim's premise: each blocking call made was given a timeout
C21_ExplicitTimeouts ==
    \A i \in Idx : Blocking(i) => Row(trace[i]).timeout > 0

\* C21 as it holds: every run ends, with or without explicit timeouts
C21_EveryRunEnds == <>Ended

\* verify_palette has ended on a wait that ran out without a timeout= of
\* its own
C21_Witness ==
    /\ script = "verify_palette" /\ Ended /\ exc = "Timeout"
    /\ \E i \in Idx : OpAt(i) = "wait" /\ trace[i].res = "raise"
                      /\ Row(trace[i]).timeout = 0

(***************************************************************************)
(* C22.  The ScenarioResult is pass exactly when the run ended in          *)
(* Completed with every step ok; every run that ends in Aborted returns    *)
(* status fail with failedStep populated, whichever state (Resolving,      *)
(* Ready or Running) the abort came from.                                  *)
(*                                                                         *)
(* In verify_world_engine.py and verify_ban_list.py the result is the      *)
(* verdict __main__ prints: "Verification Successful!" / "Test passed!"    *)
(* when the test function returns, "Verification Failed: {e}" / "Test      *)
(* failed: {e}" with the exception of the failing call when it raises.     *)
(***************************************************************************)
VerdictScripts == {"verify_world_engine", "verify_ban_list"}

\* the verdict printed by __main__
Verdict(i) == OpAt(i) = "record" /\ StepAt(i) = 0

\* a call of the test function raises and the exception leaves the function
Aborts(i) == trace[i].res = "raise" /\ Row(trace[i]).exc = "failed"

C22_VerdictPassIffCompleted ==
    (script \in VerdictScripts /\ Ended) =>
        /\ Cardinality({i \in Idx : Verdict(i)}) = 1
        /\ \A i \in Idx : Verdict(i) =>
              /\ trace[i].res = "ok" <=> (\A j \in Idx : ~Aborts(j))
              /\ trace[i].res = "failed" => (i > 1 /\ Aborts(i - 1))

\* verify_world_engine was aborted while waiting for the panel and has
\* printed its verdict
C22_Witness ==
    /\ script = "verify_world_engine" /\ Ended
    /\ \E i \in Idx : /\ Verdict(i) /\ trace[i].res = "failed"
                      /\ i > 1 /\ OpAt(i - 1) = "wait"

(***************************************************************************)
(* C23.  On a detached-element error the Action Executor re-resolves the   *)
(* original LocatorSpec and retries; it performs at most                   *)
(* retryPolicy.maxAttempts re-resolutions, succeeds if any attempt         *)
(* succeeds, and fails with ActionError only after all attempts are        *)
(* exhausted.                                                              *)
(*                                                                         *)
(* The retry of the repository is the loop of verify_theme.py, lines 10    *)
(* to 16: up to range(10) attempts of page.goto, left by break.            *)
(***************************************************************************)
maxAttempts == 10

\* the attempts made so far, and those that succeeded
Attempts == {i \in Idx : OpAt(i) = "goto"}
Succeeded == {i \in Attempts : trace[i].res = "ok"}

C23_RetryThenFail ==
    script = "verify_theme" =>
        /\ Cardinality(Attempts) <= maxAttempts
        \* one attempt succeeded: the action has succeeded, the run goes on
        /\ Len(trace) \in Succeeded => Cur.line \in {13, 23}
        \* all attempts failed: the action fails, nothing is done after it
        /\ (Succeeded = {} /\ Cardinality(Attempts) = maxAttempts
               /\ OpAt(Len(trace)) # "goto") => (pc = 0 /\ exit # 0)

(***************************************************************************)
(* C25.  For every failed step, the automatically triggered capture        *)
(* contains a screenshot, a DOM dump and the console and page-error        *)
(* messages buffered for the scenario up to the failure.                   *)
(***************************************************************************)
CaptureScripts == {"verify_accessibility", "verify_ghost_forge"}

\* event j wrote the page's HTML to a file
DumpAt(j) == OpAt(j) = "call" /\ Row(trace[j]).mode = "dump" /\ trace[j].res = "ok"

\* event j wrote the console messages received so far to a file
FlushAt(j) == OpAt(j) = "call" /\ Row(trace[j]).mode = "flush" /\ trace[j].res = "ok"

C25_FailureCaptureComplete ==
    (script \in CaptureScripts /\ Ended) =>
        \A i \in Idx : FailedAt(i) =>
            /\ \E j \in Idx : j > i /\ ShotAt(j)
            /\ \E j \in Idx : j > i /\ DumpAt(j)
            /\ \E j \in Idx : j > i /\ FlushAt(j)

(***************************************************************************)
(* C26.  A handle is resolved by a geometric strategy (bounding-box        *)
(* position) only when every non-geometric strategy of the chain has       *)
(* failed, and every result obtained by a geometric strategy is flagged    *)
(* low-confidence.                                                         *)
(*                                                                         *)
(* The flag of verify_canon_v4.py is the line it prints before the search: *)
(* "Searching for Guardian button (by guessing position)...".              *)
(***************************************************************************)
\* event i used an element picked by its bounding box
Geometric(i) == trace[i].sel = RightSideButton
GeometricClick(i) == Geometric(i) /\ OpAt(i) = "click" /\ trace[i].res = "ok"

\* event i is the print that the search goes by position
Flagged(i) == OpAt(i) = "call" /\ Row(trace[i]).status = "by guessing position"

Navigations == {i \in Idx : OpAt(i) = "goto"}

\* the claim as stated: one endpoint for the whole run, and it was there
\* before the browser was launched
C27_EndpointFixedBeforeSession ==
    /\ \A i \in Navigations, j \in Navigations : trace[i].port = trace[j].port
    /\ \A i \in Idx : OpAt(i) = "resolve" => \A l \in Idx : OpAt(l) = "launch" => i < l

\* C27 as it holds: one endpoint for the whole run, determined before the
\* first navigation (a literal of the script, or the port read from the log)
C27_OneEndpointPerRun ==
    /\ \A i \in Navigations, j \in Navigations : trace[i].port = trace[j].port
    /\ \A i \in Navigations :
          Resolves(script) =>
              /\ trace[i].port = url
              /\ \E r \in Idx : r < i /\ OpAt(r) = "resolve"

\* verify_localization_full has navigated and reloaded
C27_Witness ==
    /\ script = "verify_localization_full"
    /\ \E i \in Navigations, j \in Navigations :
          /\ i < j /\ Row(trace[j]).mode = "reload"
          /\ trace[i].res = "ok" /\ trace[j].res = "ok"

(***************************************************************************)
(* C28.  Log-based port discovery (get_port, get_dev_server_url) always    *)
(* returns a value and never raises for a log file that is missing,        *)
(* present without a match, or present with a match: it returns the port   *)
(* (URL) of the first occurrence of the localhost pattern in the log when  *)
(* there is one, and the hard-coded default (3001, respectively            *)
(* http://localhost:5173) in every other case, without probing whether     *)
(* that endpoint is live.                                                  *)
(***************************************************************************)
\* the three kinds of log file
LogMissing == ~log.exists
LogWithoutMatch == log.exists /\ \A k \in 1..Len(log.lines) : log.lines[k] = 0
LogWithMatch == log.exists /\ \E k \in 1..Len(log.lines) : log.lines[k] # 0

C28_DiscoveryReturnsFirstOrDefault ==
    \A i \in Idx : OpAt(i) = "resolve" =>
        /\ trace[i].res = "ok"
        /\ i = Len(trace) => (pc # 0 /\ exc = "none")
        /\ LogWithMatch => trace[i].port = FirstMatch(log)
        /\ (LogMissing \/ LogWithoutMatch) =>
              trace[i].port = (IF script = "verify_sidebar_ghost" THEN 3001 ELSE 5173)

\* get_port has returned 3001 for a log without a match while nothing
\* answers on that port
C28_Witness ==
    /\ script = "verify_sidebar_ghost" /\ LogWithoutMatch /\ Len(log.lines) > 0
    /\ \E i \in Idx : OpAt(i) = "resolve" /\ trace[i].port = 3001
                      /\ 3001 \notin trace[i].live

(***************************************************************************)
(* C29.  In verify_nexus, when the button 'World Engine' does not appear   *)
(* within its 5000 ms wait, the fallback selector 'Perforador de Mundos'   *)
(* is tried before the run is treated as failed (given that the driver's   *)
(* wait raises on timeout).                                                *)
(***************************************************************************)
C29_FallbackBeforeFailure ==
    script = "verify_nexus" =>
        \A i, j \in Idx :
            ( /\ i < j
              /\ trace[i].sel = WorldEngineLabel /\ OpAt(i) = "wait"
              /\ trace[i].res = "raise"
              /\ OpAt(j) = "record" /\ Row(trace[j]).status = "failed" )
            => \E k \in Idx : i < k /\ k < j /\ trace[k].sel = PerforadorLabel

(***************************************************************************)
(* C30.  In verify_titanium_theme, navigation is attempted at most 10      *)
(* times and no attempt is made after the first successful one.            *)
(***************************************************************************)
C30_AtMostTenNoneAfterSuccess ==
    script = "verify_theme" =>
        /\ Cardinality(Attempts) <= maxAttempts
        /\ \A i \in Succeeded : \A j \in Attempts : j <= i

\* the server came up while the script was retrying: failed attempts, one
\* success, and the run went on to its end
C30_Witness ==
    /\ script = "verify_theme" /\ Ended
    /\ Succeeded # {}
    /\ \E j \in Attempts : trace[j].res = "raise"

(***************************************************************************)
(* C31.  In verify_titanium_theme, the body styles are evaluated and a     *)
(* colour verdict (SUCCESS or ERROR) is reported only if one of the        *)
(* navigation attempts succeeded; when all 10 attempts fail no verdict is  *)
(* reported.                                                               *)
(***************************************************************************)
\* event i evaluates a computed style of body (lines 23, 24)
StyleRead(i) == OpAt(i) = "call" /\ LineAt(i) \in {23, 24}
\* event i prints SUCCESS or ERROR for a colour (lines 33-41)
ColourVerdict(i) == OpAt(i) = "check"

C31_VerdictOnlyAfterNavigation ==
    script = "verify_theme" =>
        \A i \in Idx :
            (StyleRead(i) \/ ColourVerdict(i)) => \E j \in Succeeded : j < i

(***************************************************************************)
(* C32.  In verify_canon, at most one dock button is clicked per run: the  *)
(* first button in list order whose aria-label contains 'Guardian',        *)
(* 'Canon' or 'Radar', or, only when no button has such a label, the last  *)
(* button of the list; when the list is empty no button is clicked.        *)
(***************************************************************************)
DockClicks == {i \in Idx : OpAt(i) = "click"}

C32_AtMostOneDockClick ==
    script = "verify_canon" =>
        /\ Cardinality(DockClicks) <= 1
        /\ \A i \in DockClicks :
              \* the labelled button, the first of them, found just before
              \/ /\ LineAt(i) = 53 /\ trace[i].sel = GuardianButton
                 /\ Row(trace[i]).mode = "first"
                 /\ i > 1 /\ LineAt(i - 1) = 51 /\ trace[i - 1].res = "yes"
              \* the last button, after the labels were looked through in vain
              \/ /\ LineAt(i) = 58 /\ trace[i].sel = "aside button >> last"
                 /\ i > 2 /\ LineAt(i - 1) = 57 /\ trace[i - 1].res = "yes"
                 /\ LineAt(i - 2) = 51 /\ trace[i - 2].res = "no"
        \* an empty list: nothing is clicked
        /\ \A i \in Idx :
              (LineAt(i) = 57 /\ trace[i].res = "no") => DockClicks = {}

\* no label matched and the last button of the dock was clicked
C32_Witness ==
    /\ script = "verify_canon" /\ Ended
    /\ \E i \in DockClicks : LineAt(i) = 58 /\ trace[i].res = "ok"

(***************************************************************************)
(* C33.  In verify_canon_v2, buttons are clicked in list order, each at    *)
(* most once, and no button is clicked after the first click following     *)
(* which 'Radar de Canon' is visible; canon_radar_active.png is written if *)
(* and only if some click made it visible, otherwise                       *)
(* canon_radar_failed.png is written, and never both in one run.           *)
(***************************************************************************)
\* the clicks of the loop, and those after which the radar was seen
V2Clicks == {i \in Idx : OpAt(i) = "click" /\ LineAt(i) = 48}
MadeVisible ==
    {i \in V2Clicks : i < Len(trace) /\ LineAt(i + 1) = 50 /\ trace[i + 1].res = "yes"}
Written(p) == \E i \in Idx : ShotAt(i) /\ Row(trace[i]).path = p
\* the run got as far as listing the buttons of the dock
Listed == \E i \in Idx : LineAt(i) = 38

C33_ClickUntilVisibleThenOneArtifact ==
    script = "verify_canon_v2" =>
        \* list order, each button once: the k-th click is on buttons[k-1]
        /\ (pc # 0 /\ Cur.line = 48) => cnt = Cardinality(V2Clicks)
        /\ \A i \in MadeVisible : \A j \in V2Clicks : j <= i
        /\ (Ended /\ Listed) =>
              /\ Written("verification/canon_radar_active.png") <=> MadeVisible # {}
              /\ MadeVisible = {} => Written("verification/canon_radar_failed.png")
              /\ ~ ( /\ Written("verification/canon_radar_active.png")
                     /\ Written("verification/canon_radar_failed.png") )

(***************************************************************************)
(* C34.  In the scripts that wrap the test function in                     *)
(* try/except/finally (verify_ban_list, verify_accessibility,              *)
(* verify_project_settings_modal, verify_imprenta), the failure screenshot *)
(* is taken if and only if the test function raised, 'Test passed!'        *)
(* (verify_ban_list) is printed if and only if it did not, and the browser *)
(* is closed in both cases.                                                *)
(*                                                                         *)
(* "Taken" is the call of page.screenshot in the handler.                  *)
(***************************************************************************)
WrappedScripts ==
    {"verify_ban_list", "verify_accessibility", "verify_project_settings_modal",
     "verify_imprenta"}

\* the label of the except branch of __main__, and its screenshot
MainExcept == IF script = "verify_ban_list" THEN "failed" ELSE "error"
FailureShotPath ==
    CASE script = "verify_ban_list" -> "verification/failure.png"
      [] script = "verify_imprenta" -> "verification_error.png"
      [] OTHER -> "verification/error.png"

\* an exception has left the test function
TestRaised == \E i \in Idx : trace[i].res = "raise" /\ Row(trace[i]).exc = MainExcept
FailureShot == \E i \in Idx : OpAt(i) = "shot" /\ Row(trace[i]).path = FailureShotPath
TestPassedPrinted == \E i \in Idx : OpAt(i) = "record" /\ LineAt(i) = 50

LoginSeen == \E i \in Idx : LineAt(i) = 25 /\ trace[i].res = "ok"
LoginTimedOut == \E i \in Idx : LineAt(i) = 25 /\ trace[i].res = "raise"
MainAwaited == \E i \in Idx : LineAt(i) = 34 /\ OpAt(i) = "wait"

C35_LoginSeenEndsRun ==
    script = "verify_canon" =>
        /\ LoginSeen => (~MainAwaited /\ DockClicks = {})
        /\ (LoginSeen /\ Ended) =>
              /\ Written("verification/login_screen.png")
              /\ browser = "closed" /\ exit = 0
        /\ MainAwaited => LoginTimedOut

(***************************************************************************)
(* C36.  In every script that subscribes to the console and page-error     *)
(* streams, the handlers are registered before the first navigation is     *)
(* issued, so no message emitted during or after page load is delivered    *)
(* without a handler.                                                      *)
(*                                                                         *)
(* A page emits messages only once a navigation has been issued; the       *)
(* handlers in place at that moment are those whose page.on call is in     *)
(* the trace.                                                              *)
(***************************************************************************)
\* the rows of the running script that register a handler
Subscriptions == {k \in 1..Len(Prog) : Prog[k].op = "call" /\ Prog[k].mode = "listen"}
Registered(k) == \E j \in Idx : trace[j].at = k

C36_HandlersBeforeNavigation ==
    \* a navigation is about to be issued
    /\ (Running /\ Cur.op = "goto") => \A k \in Subscriptions : Registered(k)
    \* a navigation was issued
    /\ \A i \in Idx :
          OpAt(i) = "goto" =>
              \A k \in Subscriptions : \E j \in Idx : j < i /\ trace[j].at = k

\* verify_ghost_forge has navigated with both of its handlers in place
C36_Witness ==
    /\ script = "verify_ghost_forge"
    /\ Cardinality(Subscriptions) = 2
    /\ \E i \in Idx : OpAt(i) = "goto" /\ trace[i].res = "ok"
    /\ \A k \in Subscriptions : Registered(k)

====
